---- MODULE Spec2Model ----
(***************************************************************************)
(* A model of the port-forwarding engine of src/t.py: the rule registry    *)
(* (PortForwarder), its per-rule workers, the control-plane handlers that  *)
(* call it, the PersistenceManager with its change-detection hashes and    *)
(* backup rotation, and the SecurityManager's abuse state.                 *)
(***************************************************************************)
EXTENDS Integers, Sequences, FiniteSets, TLC

VARIABLES
    active_forwards,  \* PortForwarder.active_forwards: id -> forward_info
    stats,            \* PortForwarder.stats
    running,          \* PortForwarder.running
    workers,          \* one worker thread per started rule: id -> thread and listener state
    ext_ports,        \* TCP ports on which another process listens
    req,              \* each control-plane thread's position in its handler
    stopped,          \* ids for which stop_forward has returned True
    next_id,          \* source of fresh rule identifiers (uuid4)
    pm,               \* PersistenceManager's fields
    disk,             \* data/forwards.json, stats.json, security.pkl and data/backups
    sec,              \* SecurityManager's four maps
    now,              \* int(time.time())
    ticks             \* number of clock advances so far

vars == <<active_forwards, stats, running, workers, ext_ports, req, stopped, next_id,
          pm, disk, sec, now, ticks>>

(***************************************************************************)
(* Bounds of the model.                                                    *)
(***************************************************************************)
MaxIds == 2          \* rules in one run, restored ones included
MaxPort == 1         \* local ports 1..MaxPort
MaxBatch == 1        \* configurations in one batch-add request
MaxTicks == 1        \* clock advances in one run
MaxHits == 1         \* recorded entries per IP and map
MaxBytes == 1        \* bytes forwarded in one run

Threads == {"T1", "T2"}
Ids == 1..MaxIds
Ports == 1..MaxPort
RemoteHosts == {"10.0.0.9"}
RemotePorts == {80 + MaxPort}
IPs == {"ip1"}
Paths == {"/admin"}

NoError == "None"

(***************************************************************************)
(* Rule records.                                                           *)
(***************************************************************************)
\* str.upper() on the two protocol names the API admits.
Upper(p) == IF p \in {"tcp", "TCP"} THEN "TCP" ELSE "UDP"

Configs ==
    [protocol : {"tcp", "udp"}, local_port : Ports,
     remote_host : RemoteHosts, remote_port : RemotePorts]

NewForwardInfo_mut_ports(id, cfg, t) ==
    [id |-> id, protocol |-> Upper(cfg.protocol), local_port |-> cfg.local_port,
     remote_host |-> cfg.remote_host, remote_port |-> cfg.local_port,
     status |-> "starting", created_time |-> t, error |-> NoError,
     thread |-> "absent", server |-> "absent", socket |-> "absent"]

\* The forward_info dict built by start_forward; the keys 'thread', 'server'
\* and 'socket' are "absent" until the code stores a handle under them.
NewForwardInfo(id, cfg, t) ==
    [id |-> id, protocol |-> Upper(cfg.protocol), local_port |-> cfg.local_port,
     remote_host |-> cfg.remote_host, remote_port |-> cfg.remote_port,
     status |-> "starting", created_time |-> t, error |-> NoError,
     thread |-> "absent", server |-> "absent", socket |-> "absent"]

PersistedKeys ==
    {"id", "protocol", "local_port", "remote_host", "remote_port",
     "status", "created_time", "error"}

\* The record save_forwards writes for one rule.
serializable_mut_keeps_status(fi) ==
    [id |-> fi.id, protocol |-> fi.protocol, local_port |-> fi.local_port,
     remote_host |-> fi.remote_host, remote_port |-> fi.remote_port,
     status |-> fi.status, created_time |-> fi.created_time, error |-> fi.error]

serializable(fi) ==
    [id |-> fi.id, protocol |-> fi.protocol, local_port |-> fi.local_port,
     remote_host |-> fi.remote_host, remote_port |-> fi.remote_port,
     status |-> "stopped", created_time |-> fi.created_time, error |-> fi.error]

\* A dict read back by json.load: the keys the file holds, as they are, and
\* no handle.
FromJson(rec) ==
    [k \in DOMAIN rec \cup {"thread", "server", "socket"} |->
        IF k \in DOMAIN rec THEN rec[k] ELSE "absent"]

\* What str() shows of the handles stored in a forward_info: a Thread prints as
\* started or stopped, a Server or socket as open or closed.
MemForward(fi, ws) ==
    LET w == ws[fi.id]
    IN [fi EXCEPT
          !.thread = IF fi.thread = "absent" THEN "absent"
                     ELSE IF w.st = "dead" THEN "stopped" ELSE "started",
          !.server = IF fi.server = "absent" THEN "absent" ELSE w.lsock,
          !.socket = IF fi.socket = "absent" THEN "absent" ELSE w.lsock]

\* The value of self.active_forwards as the persistence manager sees it.
MemForwards(af, ws) == [id \in DOMAIN af |-> MemForward(af[id], ws)]

HasHandle(fi) == fi.thread # "absent" \/ fi.server # "absent" \/ fi.socket # "absent"

(***************************************************************************)
(* Files.                                                                  *)
(***************************************************************************)
AbsentFile == [st |-> "absent", data |-> <<>>, mtime |-> 0]
WrittenFile(data, t) == [st |-> "ok", data |-> data, mtime |-> t]
TornFile(t) == [st |-> "torn", data |-> <<>>, mtime |-> t]

IOOutcomes == {"ok", "open_fails", "dump_fails"}

\* Path.rename into the backup directory, to <kind>_backup_<t>: an existing
\* backup of the same name (same kind, same clock second) is replaced. The
\* program never reads a backup: it is kept as its name and modification time.
RenameToBackup(backups, kind, file, t) ==
    {b \in backups : ~(b.kind = kind /\ b.ts = t)} \cup
    {[kind |-> kind, ts |-> t, mtime |-> file.mtime]}

\* open(path, 'w') followed by json.dump / pickle.dump.
WriteFile(io, data, t) ==
    CASE io = "ok" -> WrittenFile(data, t)
      [] io = "open_fails" -> AbsentFile
      [] OTHER -> TornFile(t)

(***************************************************************************)
(* PersistenceManager.                                                     *)
(***************************************************************************)
NoHash == [via |-> "none", data |-> <<>>]

\* json.dumps(data, sort_keys=True) hashed, or str(data) hashed when the data
\* holds an object json cannot serialize (a Thread, a Server, a socket).
_calculate_hash(data, jsonable) ==
    [via |-> IF jsonable THEN "json" ELSE "str", data |-> data]

ForwardsHash(forwards) ==
    _calculate_hash(forwards, \A id \in DOMAIN forwards : ~HasHandle(forwards[id]))

SecurityData(s) ==
    [failed_attempts |-> s.failed_attempts, blocked_ips |-> s.blocked_ips,
     scanner_detection |-> s.scanner_detection, honeypot_hits |-> s.honeypot_hits]

_check_forwards_changed_mut_never(p, forwards) ==
    [changed |-> TRUE, pm |-> [p EXCEPT !.last_forwards_hash = ForwardsHash(forwards)]]

_check_forwards_changed(p, forwards) ==
    LET current_hash == ForwardsHash(forwards)
    IN IF p.last_forwards_hash # current_hash
       THEN [changed |-> TRUE, pm |-> [p EXCEPT !.last_forwards_hash = current_hash]]
       ELSE [changed |-> FALSE, pm |-> p]

_check_stats_changed(p, st) ==
    LET current_hash == _calculate_hash(st, TRUE)
    IN IF p.last_stats_hash # current_hash
       THEN [changed |-> TRUE, pm |-> [p EXCEPT !.last_stats_hash = current_hash]]
       ELSE [changed |-> FALSE, pm |-> p]

_check_security_changed(p, s) ==
    LET current_hash == _calculate_hash(SecurityData(s), TRUE)
    IN IF p.last_security_hash # current_hash
       THEN [changed |-> TRUE, pm |-> [p EXCEPT !.last_security_hash = current_hash]]
       ELSE [changed |-> FALSE, pm |-> p]

\* Each save returns [pm, disk, ok]: the manager's fields and the files after
\* the call, and the call's return value.
save_forwards(p, d, forwards, t, io) ==
    LET chk == _check_forwards_changed(p, forwards)
        ser == [id \in DOMAIN forwards |-> serializable(forwards[id])]
        bk == IF d.forwards_file.st # "absent"
              THEN RenameToBackup(d.backups, "forwards", d.forwards_file, t)
              ELSE d.backups
    IN IF ~chk.changed
       THEN [pm |-> chk.pm, disk |-> d, ok |-> TRUE]
       ELSE [pm |-> IF io = "ok" THEN [chk.pm EXCEPT !.data_changed = TRUE] ELSE chk.pm,
             disk |-> [d EXCEPT !.backups = bk, !.forwards_file = WriteFile(io, ser, t)],
             ok |-> io = "ok"]

save_stats(p, d, st, t, io) ==
    LET chk == _check_stats_changed(p, st)
        bk == IF d.stats_file.st # "absent"
              THEN RenameToBackup(d.backups, "stats", d.stats_file, t)
              ELSE d.backups
    IN IF ~chk.changed
       THEN [pm |-> chk.pm, disk |-> d, ok |-> TRUE]
       ELSE [pm |-> IF io = "ok" THEN [chk.pm EXCEPT !.data_changed = TRUE] ELSE chk.pm,
             disk |-> [d EXCEPT !.backups = bk, !.stats_file = WriteFile(io, st, t)],
             ok |-> io = "ok"]

save_security_data(p, d, s, t, io) ==
    LET chk == _check_security_changed(p, s)
        security_data ==
            [failed_attempts |-> s.failed_attempts, blocked_ips |-> s.blocked_ips,
             scanner_detection |-> s.scanner_detection,
             honeypot_hits |-> s.honeypot_hits, save_time |-> t]
        bk == IF d.security_file.st # "absent"
              THEN RenameToBackup(d.backups, "security", d.security_file, t)
              ELSE d.backups
    IN IF ~chk.changed
       THEN [pm |-> chk.pm, disk |-> d, ok |-> TRUE]
       ELSE [pm |-> IF io = "ok" THEN [chk.pm EXCEPT !.data_changed = TRUE] ELSE chk.pm,
             disk |-> [d EXCEPT !.backups = bk,
                                !.security_file = WriteFile(io, security_data, t)],
             ok |-> io = "ok"]

\* Each load returns [value, pm].
load_forwards_mut_no_seed(p, d) ==
    IF d.forwards_file.st # "ok"
    THEN [value |-> <<>>, pm |-> p]
    ELSE [value |-> [id \in DOMAIN d.forwards_file.data |->
                        FromJson(d.forwards_file.data[id])],
          pm |-> p]

load_forwards(p, d) ==
    IF d.forwards_file.st # "ok"
    THEN [value |-> <<>>, pm |-> p]
    ELSE LET forwards == [id \in DOMAIN d.forwards_file.data |->
                             FromJson(d.forwards_file.data[id])]
         IN [value |-> forwards,
             pm |-> [p EXCEPT !.last_forwards_hash = ForwardsHash(forwards)]]

StatKeys == {"total_connections", "active_connections", "bytes_transferred", "start_time"}

DefaultStats(t) ==
    [total_connections |-> 0, active_connections |-> 0,
     bytes_transferred |-> 0, start_time |-> t]

load_stats(p, d, t) ==
    IF d.stats_file.st # "ok"
    THEN [value |-> DefaultStats(t), pm |-> p]
    ELSE LET data == d.stats_file.data
             st == [k \in StatKeys \cup DOMAIN data |->
                       IF k \in DOMAIN data THEN data[k] ELSE DefaultStats(t)[k]]
         IN [value |-> st, pm |-> [p EXCEPT !.last_stats_hash = _calculate_hash(st, TRUE)]]

\* dict.get(key, {}) of the unpickled security data.
GetMap(data, key) == IF key \in DOMAIN data THEN data[key] ELSE <<>>

load_security_data_mut_keeps_expired(p, d, s, t) ==
    IF d.security_file.st # "ok"
    THEN [value |-> s, pm |-> p]
    ELSE LET data == d.security_file.data
             loaded ==
                 [failed_attempts |-> GetMap(data, "failed_attempts"),
                  blocked_ips |-> GetMap(data, "blocked_ips"),
                  scanner_detection |-> GetMap(data, "scanner_detection"),
                  honeypot_hits |-> GetMap(data, "honeypot_hits")]
         IN [value |-> loaded,
             pm |-> [p EXCEPT !.last_security_hash =
                                 _calculate_hash(SecurityData(loaded), TRUE)]]

\* The security file is unpickled into the manager's four maps, and the
\* blocks that have expired by the time of the load are dropped.
load_security_data(p, d, s, t) ==
    IF d.security_file.st # "ok"
    THEN [value |-> s, pm |-> p]
    ELSE LET data == d.security_file.data
             blocked == GetMap(data, "blocked_ips")
             loaded ==
                 [failed_attempts |-> GetMap(data, "failed_attempts"),
                  blocked_ips |-> [ip \in {i \in DOMAIN blocked : t < blocked[i]} |->
                                      blocked[ip]],
                  scanner_detection |-> GetMap(data, "scanner_detection"),
                  honeypot_hits |-> GetMap(data, "honeypot_hits")]
         IN [value |-> loaded,
             pm |-> [p EXCEPT !.last_security_hash =
                                 _calculate_hash(SecurityData(loaded), TRUE)]]

\* PortForwarder.save_data: save_forwards, then save_stats.
save_data(p, d, forwards, st, t, io) ==
    LET a == save_forwards(p, d, forwards, t, io)
    IN save_stats(a.pm, a.disk, st, t, io)

KeepBackups == 3

BackupKinds == {"forwards", "stats", "security"}

\* cleanup_old_backups: per kind the backups are sorted by modification time,
\* newest first, and all after the third are deleted (the max_backups
\* argument is not read). Files of equal modification time sort in directory
\* order, so the result is one of a set.
cleanup_old_backups(backups, max_backups) ==
    LET of(k) == {b \in backups : b.kind = k}
        keeps(B) == {K \in SUBSET B :
                       /\ Cardinality(K) = IF Cardinality(B) < KeepBackups
                                           THEN Cardinality(B) ELSE KeepBackups
                       /\ \A x \in K, y \in B \ K : x.mtime >= y.mtime}
    IN {f \cup s \cup x : f \in keeps(of("forwards")), s \in keeps(of("stats")),
                          x \in keeps(of("security"))}

InitPm ==
    [last_forwards_hash |-> NoHash, last_stats_hash |-> NoHash,
     last_security_hash |-> NoHash, data_changed |-> FALSE, last_save_time |-> 0]

EmptyDisk ==
    [forwards_file |-> AbsentFile, stats_file |-> AbsentFile,
     security_file |-> AbsentFile, backups |-> {}]

EmptySec ==
    [failed_attempts |-> <<>>, blocked_ips |-> <<>>,
     scanner_detection |-> <<>>, honeypot_hits |-> <<>>]

(***************************************************************************)
(* SecurityManager.                                                        *)
(***************************************************************************)
MaxAttempts == 5
BlockTime == 300
FailedWindow == 3600
HoneypotBlock == 7200

\* dict[key] = value, adding the key when it is new.
Put(f, k, v) == [x \in DOMAIN f \cup {k} |-> IF x = k THEN v ELSE f[x]]
\* del dict[key]
Del(f, k) == [x \in DOMAIN f \ {k} |-> f[x]]
\* dict.get(key, [])
GetList(f, k) == IF k \in DOMAIN f THEN f[k] ELSE <<>>

is_ip_blocked_mut_evicts_all(s, ip, t) ==
    IF ip \in DOMAIN s.blocked_ips
    THEN IF t < s.blocked_ips[ip]
         THEN [blocked |-> TRUE, sec |-> s]
         ELSE [blocked |-> FALSE, sec |-> [s EXCEPT !.blocked_ips = << >>]]
    ELSE [blocked |-> FALSE, sec |-> s]

\* Returns [blocked, sec]: an expired entry is deleted by the lookup.
is_ip_blocked(s, ip, t) ==
    IF ip \in DOMAIN s.blocked_ips
    THEN IF t < s.blocked_ips[ip]
         THEN [blocked |-> TRUE, sec |-> s]
         ELSE [blocked |-> FALSE, sec |-> [s EXCEPT !.blocked_ips = Del(@, ip)]]
    ELSE [blocked |-> FALSE, sec |-> s]

record_failed_attempt_mut_no_prune(s, ip, t) ==
    LET lst == Append(GetList(s.failed_attempts, ip), t)
        fa == Put(s.failed_attempts, ip, lst)
    IN IF Len(lst) >= MaxAttempts
       THEN [s EXCEPT !.failed_attempts = fa,
                      !.blocked_ips = Put(@, ip, t + BlockTime)]
       ELSE [s EXCEPT !.failed_attempts = fa]

record_failed_attempt(s, ip, t) ==
    LET kept == SelectSeq(GetList(s.failed_attempts, ip), LAMBDA x : t - x < FailedWindow)
        lst == Append(kept, t)
        fa == Put(s.failed_attempts, ip, lst)
    IN IF Len(lst) >= MaxAttempts
       THEN [s EXCEPT !.failed_attempts = fa,
                      !.blocked_ips = Put(@, ip, t + BlockTime)]
       ELSE [s EXCEPT !.failed_attempts = fa]

record_honeypot_hit_mut_short(s, ip, path, t) ==
    [s EXCEPT !.honeypot_hits =
                 Put(@, ip, Append(GetList(@, ip), [path |-> path, time |-> t])),
              !.blocked_ips = Put(@, ip, t + 3600)]

record_honeypot_hit(s, ip, path, t) ==
    [s EXCEPT !.honeypot_hits =
                 Put(@, ip, Append(GetList(@, ip), [path |-> path, time |-> t])),
              !.blocked_ips = Put(@, ip, t + HoneypotBlock)]

ScannerWindow == 1800
ScannerThreshold == 3
ScannerBlock == 3600

\* Returns [triggered, sec]: the entry is appended first, then the list is
\* pruned.
record_scanner_behavior_mut_keeps_boundary(s, ip, path, t) ==
    LET lst == Append(GetList(s.scanner_detection, ip), [path |-> path, time |-> t])
        kept == SelectSeq(lst, LAMBDA e : t - e.time <= ScannerWindow)
        sd == Put(s.scanner_detection, ip, kept)
    IN IF Len(kept) >= ScannerThreshold
       THEN [triggered |-> TRUE,
             sec |-> [s EXCEPT !.scanner_detection = sd,
                               !.blocked_ips = Put(@, ip, t + ScannerBlock)]]
       ELSE [triggered |-> FALSE, sec |-> [s EXCEPT !.scanner_detection = sd]]

record_scanner_behavior(s, ip, path, t) ==
    LET lst == Append(GetList(s.scanner_detection, ip), [path |-> path, time |-> t])
        kept == SelectSeq(lst, LAMBDA e : t - e.time < ScannerWindow)
        sd == Put(s.scanner_detection, ip, kept)
    IN IF Len(kept) >= ScannerThreshold
       THEN [triggered |-> TRUE,
             sec |-> [s EXCEPT !.scanner_detection = sd,
                               !.blocked_ips = Put(@, ip, t + ScannerBlock)]]
       ELSE [triggered |-> FALSE, sec |-> [s EXCEPT !.scanner_detection = sd]]

clear_failed_attempts_mut_unblocks(s, ip) ==
    [s EXCEPT !.failed_attempts = Del(@, ip), !.blocked_ips = Del(@, ip)]

clear_failed_attempts(s, ip) ==
    IF ip \in DOMAIN s.failed_attempts
    THEN [s EXCEPT !.failed_attempts = Del(@, ip)]
    ELSE s


(***************************************************************************)
(* PortForwarder: the registry and its workers.                            *)
(***************************************************************************)
NoCfg == [protocol |-> "tcp", local_port |-> 0, remote_host |-> "", remote_port |-> 0]
\* A request handler at rest. out, pos and used belong to a listing in
\* progress: the summaries appended so far, the key the dict iterator has
\* reached, and the dict size the iterator recorded when it was created.
\* ip and path are the client address and the path of a request that
\* security_check is looking at.
IdleReq == [pc |-> "idle", batch |-> FALSE, cfg |-> NoCfg, id |-> 0,
            live |-> FALSE, rest |-> <<>>, out |-> <<>>, pos |-> 0, used |-> 0,
            ip |-> "", path |-> ""]

\* The thread start_forward spawns for a rule. pc is its position between
\* two accesses to the shared counters, reg the counter value it has read
\* and not yet written back, len the length of the chunk in hand, ended the
\* copy_data coroutines of the connection in hand that have returned; conns,
\* dials and sent record what the thread has done: connections accepted,
\* outbound dials that succeeded and bytes sent on.
NewWorker(fi) ==
    [protocol |-> fi.protocol, local_port |-> fi.local_port,
     st |-> "spawned", lsock |-> "none",
     pc |-> "idle", reg |-> 0, len |-> 0, ended |-> {}, conns |-> 0, dials |-> 0,
     sent |-> 0]

\* A TCP connect to 127.0.0.1:port succeeds: some listener holds the port.
TcpListening(ws, ext, port) ==
    \/ port \in ext
    \/ \E id \in DOMAIN ws :
          ws[id].protocol = "TCP" /\ ws[id].local_port = port /\ ws[id].lsock = "open"

UdpBound(ws, port) ==
    \E id \in DOMAIN ws :
       ws[id].protocol = "UDP" /\ ws[id].local_port = port /\ ws[id].lsock = "open"

check_port_availability(ws, ext, port) == ~TcpListening(ws, ext, port)

\* The registry conflict check of api_add_forward and api_batch_add_forwards.
PortConflict(af, cfg) ==
    \E id \in DOMAIN af :
       af[id].local_port = cfg.local_port /\ af[id].protocol = Upper(cfg.protocol)

restore_forwards_mut_skips_occupied(af, ext, raises) ==
    LET free(id) == check_port_availability(<<>>, ext, af[id].local_port)
        started == {id \in DOMAIN af : free(id) /\ id \notin raises}
    IN [af |-> [id \in DOMAIN af |->
                   IF ~free(id)
                   THEN af[id]
                   ELSE IF id \in raises
                   THEN [af[id] EXCEPT !.status = "error",
                                       !.error = "can't start new thread"]
                   ELSE [af[id] EXCEPT !.thread = "set", !.status = "running",
                                       !.error = NoError]],
        ws |-> [id \in started |-> NewWorker(af[id])],
        count |-> Cardinality(started)]

\* restore_forwards, run once by PortForwarder.__init__ on the loaded rules;
\* raises holds the rules for which starting the thread raises. Returns
\* [af, ws, count].
restore_forwards(af, ext, raises) ==
    LET free(id) == check_port_availability(<<>>, ext, af[id].local_port)
        started == {id \in DOMAIN af : free(id) /\ id \notin raises}
    IN [af |-> [id \in DOMAIN af |->
                   IF ~free(id)
                   THEN [af[id] EXCEPT !.status = "error", !.error = "port occupied"]
                   ELSE IF id \in raises
                   THEN [af[id] EXCEPT !.status = "error",
                                       !.error = "can't start new thread"]
                   ELSE [af[id] EXCEPT !.thread = "set", !.status = "running",
                                       !.error = NoError]],
        ws |-> [id \in started |-> NewWorker(af[id])],
        count |-> Cardinality(started)]

\* get_serializable_forwards: the summaries in registry order (rules are
\* inserted with increasing identifiers).
Summary(fi) ==
    [id |-> fi.id, protocol |-> fi.protocol, local_port |-> fi.local_port,
     remote_host |-> fi.remote_host, remote_port |-> fi.remote_port,
     status |-> fi.status, created_time |-> fi.created_time, error |-> fi.error]

RECURSIVE ListFrom(_, _)
ListFrom(af, ids) ==
    IF ids = {} THEN <<>>
    ELSE LET m == CHOOSE x \in ids : \A y \in ids : x <= y
         IN <<Summary(af[m])>> \o ListFrom(af, ids \ {m})

get_serializable_forwards(af) == ListFrom(af, DOMAIN af)

\* stop_forward with its save_data. Returns [af, ws, pm, disk, ok].
stop_forward_mut_unknown(af, ws, st, p, d, id, t, io) ==
    LET sv == save_data([p EXCEPT !.last_forwards_hash = NoHash], d,
                        MemForwards(af, ws), st, t, io)
    IN [af |-> af, ws |-> ws, pm |-> sv.pm, disk |-> sv.disk, ok |-> id \in DOMAIN af]

stop_forward_mut_by_port(af, ws, st, p, d, id, t, io) ==
    IF id \notin DOMAIN af
    THEN [af |-> af, ws |-> ws, pm |-> p, disk |-> d, ok |-> FALSE]
    ELSE LET af1 == [x \in {y \in DOMAIN af : af[y].local_port # af[id].local_port}
                        |-> af[x]]
             sv == save_data(p, d, MemForwards(af1, ws), st, t, io)
         IN [af |-> af1, ws |-> ws, pm |-> sv.pm, disk |-> sv.disk, ok |-> TRUE]

stop_forward(af, ws, st, p, d, id, t, io) ==
    IF id \notin DOMAIN af
    THEN [af |-> af, ws |-> ws, pm |-> p, disk |-> d, ok |-> FALSE]
    ELSE LET fi == af[id]
             closes == fi.server # "absent" \/ fi.socket # "absent"
             ws1 == IF closes /\ id \in DOMAIN ws /\ ws[id].lsock = "open"
                    THEN [ws EXCEPT ![id].lsock = "closed"]
                    ELSE ws
             af1 == Del(af, id)
             sv == save_data(p, d, MemForwards(af1, ws1), st, t, io)
         IN [af |-> af1, ws |-> ws1, pm |-> sv.pm, disk |-> sv.disk, ok |-> TRUE]

(***************************************************************************)
(* Control-plane handlers.                                                 *)
(***************************************************************************)
\* api_add_forward up to its call of start_forward: the registry conflict
\* check and the connect probe of the local port.
ApiAddCheck(t, cfg) ==
    /\ req[t].pc = "idle"
    /\ IF PortConflict(active_forwards, cfg)
          \/ TcpListening(workers, ext_ports, cfg.local_port)
       THEN UNCHANGED req
       ELSE req' = [req EXCEPT ![t] = [IdleReq EXCEPT !.pc = "checked", !.cfg = cfg]]
    /\ UNCHANGED <<active_forwards, stats, running, workers, ext_ports, stopped, next_id,
                   pm, disk, sec, now, ticks>>

\* api_batch_add_forwards: the request's list of configurations is taken up.
ApiBatchAdd(t, cfgs) ==
    /\ req[t].pc = "idle"
    /\ req' = [req EXCEPT ![t] = [IdleReq EXCEPT !.pc = "batch", !.batch = TRUE,
                                                 !.rest = cfgs]]
    /\ UNCHANGED <<active_forwards, stats, running, workers, ext_ports, stopped, next_id,
                   pm, disk, sec, now, ticks>>

\* One turn of the batch loop up to its call of start_forward.
BatchNext(t) ==
    /\ req[t].pc = "batch"
    /\ IF req[t].rest = <<>>
       THEN req' = [req EXCEPT ![t] = IdleReq]
       ELSE IF PortConflict(active_forwards, Head(req[t].rest))
       THEN req' = [req EXCEPT ![t].rest = Tail(@)]
       ELSE req' = [req EXCEPT ![t].pc = "checked", ![t].cfg = Head(req[t].rest),
                               ![t].rest = Tail(@)]
    /\ UNCHANGED <<active_forwards, stats, running, workers, ext_ports, stopped, next_id,
                   pm, disk, sec, now, ticks>>

\* Where the handler goes after start_forward has returned.
AfterStart(r) == IF r.batch THEN [r EXCEPT !.pc = "batch", !.id = 0, !.live = FALSE]
                 ELSE IdleReq

\* start_forward up to time.sleep(0.1): the rule is inserted as starting and
\* its worker thread is started. When starting the thread raises, the except
\* branch marks the rule error, saves and returns the id.
StartForwardBegin(t, spawn_ok, io) ==
    /\ req[t].pc = "checked"
    /\ next_id <= MaxIds
    /\ LET id == next_id
           fi == NewForwardInfo(id, req[t].cfg, now)
       IN /\ next_id' = next_id + 1
          /\ IF spawn_ok
             THEN /\ active_forwards' = Put(active_forwards, id, [fi EXCEPT !.thread = "set"])
                  /\ workers' = Put(workers, id, NewWorker(fi))
                  /\ req' = [req EXCEPT ![t].pc = "sleeping", ![t].id = id,
                                        ![t].live = TRUE]
                  /\ UNCHANGED <<pm, disk>>
             ELSE LET af1 == Put(active_forwards, id,
                                 [fi EXCEPT !.status = "error", !.error = "cannot start thread"])
                      sv == save_data(pm, disk, MemForwards(af1, workers), stats, now, io)
                  IN /\ active_forwards' = af1
                     /\ pm' = sv.pm
                     /\ disk' = sv.disk
                     /\ req' = [req EXCEPT ![t] = AfterStart(req[t])]
                     /\ UNCHANGED workers
    /\ UNCHANGED <<stats, running, ext_ports, stopped, sec, now, ticks>>

\* start_forward after the sleep: forward_info is marked running, the data is
\* saved and the id returned; api_add_forward then reads the rule's status.
StartForwardFinish(t, io) ==
    /\ req[t].pc = "sleeping"
    /\ LET id == req[t].id
           af1 == IF req[t].live /\ id \in DOMAIN active_forwards
                  THEN [active_forwards EXCEPT ![id].status = "running"]
                  ELSE active_forwards
           sv == save_data(pm, disk, MemForwards(af1, workers), stats, now, io)
       IN /\ active_forwards' = af1
          /\ pm' = sv.pm
          /\ disk' = sv.disk
          /\ req' = [req EXCEPT ![t] = AfterStart(req[t])]
    /\ UNCHANGED <<stats, running, workers, ext_ports, stopped, next_id, sec, now, ticks>>

\* api_stop_forward: stop_forward(forward_id).
ApiStopForward(t, id, io) ==
    /\ req[t].pc = "idle"
    /\ LET r == stop_forward(active_forwards, workers, stats, pm, disk, id, now, io)
       IN /\ active_forwards' = r.af
          /\ workers' = r.ws
          /\ pm' = r.pm
          /\ disk' = r.disk
          /\ stopped' = IF r.ok THEN stopped \cup {id} ELSE stopped
          /\ req' = [x \in DOMAIN req |->
                        IF req[x].id = id /\ id \notin DOMAIN r.af
                        THEN [req[x] EXCEPT !.live = FALSE] ELSE req[x]]
    /\ UNCHANGED <<stats, running, ext_ports, next_id, sec, now, ticks>>

\* api_restore_data: the registry, the counters and the abuse state are
\* replaced by what the files hold.
ApiRestoreData(t) ==
    /\ req[t].pc = "idle"
    /\ LET lf == load_forwards(pm, disk)
           ls == load_stats(lf.pm, disk, now)
           lx == load_security_data(ls.pm, disk, sec, now)
       IN /\ active_forwards' = lf.value
          /\ stats' = ls.value
          /\ sec' = lx.value
          /\ pm' = lx.pm
    /\ req' = [x \in DOMAIN req |-> [req[x] EXCEPT !.live = FALSE]]
    /\ UNCHANGED <<running, workers, ext_ports, stopped, next_id, disk, now, ticks>>

(***************************************************************************)
(* Workers.                                                                *)
(***************************************************************************)
\* tcp_forward up to serve_forever: asyncio.start_server binds and listens,
\* then the server is stored in the registry entry of forward_id.
TcpBind(id) ==
    /\ id \in DOMAIN workers
    /\ workers[id].protocol = "TCP"
    /\ workers[id].st = "spawned"
    /\ IF TcpListening(workers, ext_ports, workers[id].local_port)
       THEN \* OSError: address already in use
            /\ workers' = [workers EXCEPT ![id].st = "dead"]
            /\ active_forwards' =
                   IF id \in DOMAIN active_forwards
                   THEN [active_forwards EXCEPT ![id].status = "error",
                                                ![id].error = "address already in use"]
                   ELSE active_forwards
       ELSE IF id \in DOMAIN active_forwards
       THEN /\ workers' = [workers EXCEPT ![id].st = "serving", ![id].lsock = "open"]
            /\ active_forwards' = [active_forwards EXCEPT ![id].server = "set"]
       ELSE \* KeyError storing the server: the coroutine ends, the server stays open
            /\ workers' = [workers EXCEPT ![id].st = "dead", ![id].lsock = "open"]
            /\ UNCHANGED active_forwards
    /\ UNCHANGED <<stats, running, ext_ports, req, stopped, next_id, pm, disk, sec, now, ticks>>

\* udp_server up to its loop: the socket is bound with SO_REUSEADDR (whether a
\* second bind of the same port succeeds depends on the platform), then
\* stored in the registry entry of forward_id. Neither step is inside a try.
UdpBind(id, bind_ok) ==
    /\ id \in DOMAIN workers
    /\ workers[id].protocol = "UDP"
    /\ workers[id].st = "spawned"
    /\ bind_ok \/ UdpBound(workers, workers[id].local_port)
    /\ IF ~bind_ok
       THEN /\ workers' = [workers EXCEPT ![id].st = "dead"]
            /\ UNCHANGED active_forwards
       ELSE IF id \in DOMAIN active_forwards
       THEN /\ workers' = [workers EXCEPT ![id].st = "serving", ![id].lsock = "open"]
            /\ active_forwards' = [active_forwards EXCEPT ![id].socket = "set"]
       ELSE /\ workers' = [workers EXCEPT ![id].st = "dead", ![id].lsock = "open"]
            /\ UNCHANGED active_forwards
    /\ UNCHANGED <<stats, running, ext_ports, req, stopped, next_id, pm, disk, sec, now, ticks>>

\* udp_server leaving its loop: the loop condition fails or recvfrom raises
\* on the closed socket; the finally clause closes the socket.
UdpExit(id) ==
    /\ id \in DOMAIN workers
    /\ workers[id].protocol = "UDP"
    /\ workers[id].st = "serving"
    /\ ~running \/ id \notin DOMAIN active_forwards \/ workers[id].lsock = "closed"
    /\ workers' = [workers EXCEPT ![id].st = "dead", ![id].lsock = "closed"]
    /\ UNCHANGED <<active_forwards, stats, running, ext_ports, req, stopped, next_id,
                   pm, disk, sec, now, ticks>>

\* A listener left open by a worker that has ended is closed when the
\* interpreter finalizes the unreferenced object.
Finalize(id) ==
    /\ id \in DOMAIN workers
    /\ workers[id].st = "dead"
    /\ workers[id].lsock = "open"
    /\ workers' = [workers EXCEPT ![id].lsock = "closed"]
    /\ UNCHANGED <<active_forwards, stats, running, ext_ports, req, stopped, next_id,
                   pm, disk, sec, now, ticks>>

(***************************************************************************)
(* The registry under concurrent control-plane requests.                   *)
(***************************************************************************)
\* A forwards.json a previous run of the program can have left.
PersistedRule(id, proto, port) ==
    serializable(NewForwardInfo(id, [protocol |-> proto, local_port |-> port,
                                     remote_host |-> "10.0.0.9",
                                     remote_port |-> 80 + MaxPort], 0))

\* The state once PortForwarder() and SecurityManager() are constructed on the
\* files d: load_forwards, load_stats, restore_forwards (and its save_data
\* when a rule was restored), load_security_data.
Constructed(d, ext, t, raises) ==
    LET lf == load_forwards(InitPm, d)
        ls == load_stats(lf.pm, d, t)
        rf == restore_forwards(lf.value, ext, raises)
        sv == IF rf.count > 0
              THEN save_data(ls.pm, d, MemForwards(rf.af, rf.ws), ls.value, t, "ok")
              ELSE [pm |-> ls.pm, disk |-> d, ok |-> TRUE]
        lx == load_security_data(sv.pm, sv.disk, EmptySec, t)
    IN [af |-> rf.af, ws |-> rf.ws, stats |-> ls.value, pm |-> lx.pm,
        disk |-> sv.disk, sec |-> lx.value]

RuleDisks ==
    {EmptyDisk,
     [EmptyDisk EXCEPT !.forwards_file =
         WrittenFile(Put(<<>>, 1, PersistedRule(1, "tcp", 1)), 0)]}

InitAs(c, ext) ==
       /\ active_forwards = c.af
       /\ stats = c.stats
       /\ workers = c.ws
       /\ pm = [c.pm EXCEPT !.last_save_time = 0]
       /\ disk = c.disk
       /\ sec = c.sec
       /\ running = TRUE
       /\ ext_ports = ext
       /\ req = [t \in Threads |-> IdleReq]
       /\ stopped = {}
       /\ next_id = 1 + Cardinality(DOMAIN c.af)
       /\ now = 0
       /\ ticks = 0

InitFrom(d, ext) == InitAs(Constructed(d, ext, 0, {}), ext)

InitRules == \E d \in RuleDisks : InitFrom(d, {})

BatchLists == UNION {[1..n -> Configs] : n \in 1..MaxBatch}

NextRules ==
    \/ \E t \in Threads, cfg \in Configs : ApiAddCheck(t, cfg)
    \/ \E t \in Threads, cfgs \in BatchLists : ApiBatchAdd(t, cfgs)
    \/ \E t \in Threads : BatchNext(t)
    \/ \E t \in Threads, spawn_ok \in BOOLEAN : StartForwardBegin(t, spawn_ok, "ok")
    \/ \E t \in Threads : StartForwardFinish(t, "ok")
    \/ \E t \in Threads, id \in Ids : ApiStopForward(t, id, "ok")
    \/ \E t \in Threads : ApiRestoreData(t)
    \/ \E id \in Ids : TcpBind(id)
    \/ \E id \in Ids, bind_ok \in BOOLEAN : UdpBind(id, bind_ok)
    \/ \E id \in Ids : UdpExit(id)
    \/ \E id \in Ids : Finalize(id)

SpecRules == InitRules /\ [][NextRules]_vars

(***************************************************************************)
(* Persistence under one client of the rule API, a client of the           *)
(* persistence API, UDP traffic, honeypot probes and a clock.              *)
(***************************************************************************)
DatagramLens == {1}
\* The write of a manual save completes or fails part-way.
ManualSaveOutcomes == {"ok", "dump_fails"}
TickSteps == {HoneypotBlock}

\* udp_server's loop body: one datagram is received and sent on, and its
\* length added to bytes_transferred. The read and the store of the += are
\* one step here; UdpRecv and StoreBytes take them apart.
UdpForward(id, n) ==
    /\ id \in DOMAIN workers
    /\ workers[id].protocol = "UDP"
    /\ workers[id].st = "serving"
    /\ workers[id].lsock = "open"
    /\ running /\ id \in DOMAIN active_forwards
    /\ stats.bytes_transferred + n <= MaxBytes
    /\ stats' = [stats EXCEPT !.bytes_transferred = @ + n]
    /\ UNCHANGED <<active_forwards, running, workers, ext_ports, req, stopped, next_id,
                   pm, disk, sec, now, ticks>>

\* security_check on a request for a honeypot path: a blocked IP is turned
\* away, any other has the hit recorded.
HoneypotRequest(ip, path) ==
    /\ Len(GetList(sec.honeypot_hits, ip)) < MaxHits
    /\ LET b == is_ip_blocked(sec, ip, now)
       IN sec' = IF b.blocked THEN sec ELSE record_honeypot_hit(b.sec, ip, path, now)
    /\ UNCHANGED <<active_forwards, stats, running, workers, ext_ports, req, stopped,
                   next_id, pm, disk, now, ticks>>

\* api_manual_save: the three saves, then cleanup_old_backups. io is how the
\* file system answers the writes of this call.
ApiManualSave(t, io) ==
    /\ req[t].pc = "idle"
    /\ LET p0 == [pm EXCEPT !.data_changed = FALSE]
           a == save_forwards(p0, disk, MemForwards(active_forwards, workers), now, io)
           b == save_stats(a.pm, a.disk, stats, now, io)
           c == save_security_data(b.pm, b.disk, sec, now, io)
       IN /\ pm' = c.pm
          /\ \E kept \in cleanup_old_backups(c.disk.backups, KeepBackups) :
                disk' = [c.disk EXCEPT !.backups = kept]
    /\ UNCHANGED <<active_forwards, stats, running, workers, ext_ports, req, stopped,
                   next_id, sec, now, ticks>>

\* time.time() moves on.
Tick(d) ==
    /\ ticks < MaxTicks
    /\ now' = now + d
    /\ ticks' = ticks + 1
    /\ UNCHANGED <<active_forwards, stats, running, workers, ext_ports, req, stopped,
                   next_id, pm, disk, sec>>

UdpConfigs == {c \in Configs : c.protocol = "udp"}

InitPersist == InitFrom(EmptyDisk, {})

NextPersist ==
    \/ \E cfg \in UdpConfigs : ApiAddCheck("T1", cfg)
    \/ StartForwardBegin("T1", TRUE, "ok")
    \/ StartForwardFinish("T1", "ok")
    \/ \E id \in Ids : UdpBind(id, TRUE)
    \/ \E id \in Ids, n \in DatagramLens : UdpForward(id, n)
    \/ \E ip \in IPs, path \in Paths : HoneypotRequest(ip, path)
    \/ \E io \in ManualSaveOutcomes : ApiManualSave("T2", io)
    \/ ApiRestoreData("T2")
    \/ \E d \in TickSteps : Tick(d)

SpecPersist == InitPersist /\ [][NextPersist]_vars

(***************************************************************************)
(* Claims about the registry.                                              *)
(***************************************************************************)
Active(fi) == fi.status \in {"starting", "running"}

\* The worker of rule id has made its bind attempt and it failed.
BindFailed(id) ==
    id \in DOMAIN workers /\ workers[id].st = "dead" /\ workers[id].lsock = "none"

\* start_forward has returned for rule id: no handler is still inside it.
StartReturned(id) == \A t \in Threads : ~(req[t].pc = "sleeping" /\ req[t].id = id)

\* C1: in every reachable state at most one rule with a given
\* (protocol, local_port) pair has status starting or running.
C1_OneActiveRulePerPair ==
    \A a, b \in DOMAIN active_forwards :
       ( /\ a # b
         /\ Active(active_forwards[a])
         /\ Active(active_forwards[b]) )
       => ~( /\ active_forwards[a].protocol = active_forwards[b].protocol
             /\ active_forwards[a].local_port = active_forwards[b].local_port )

\* C2: once start_forward has returned and the rule's worker has failed to
\* bind, the rule (still in the registry) has status error and last_error set.
C2_BindFailureReportedAsError ==
    \A id \in DOMAIN active_forwards :
       (BindFailed(id) /\ StartReturned(id) /\ active_forwards[id].thread = "set")
       => ( /\ active_forwards[id].status = "error"
            /\ active_forwards[id].error # NoError )

\* The step in which start_forward returns in thread t, the id it returns and
\* whether the forward_info it built is still the registry's entry.
StartReturns(t) ==
    \/ req[t].pc = "sleeping" /\ req'[t].pc # "sleeping"
    \/ req[t].pc = "checked" /\ req'[t].pc \notin {"checked", "sleeping"}
ReturnedId(t) == IF req[t].pc = "sleeping" THEN req[t].id ELSE next_id
StillEntry(t) == req[t].pc = "checked" \/ req[t].live

\* ListRules, right after the step, shows exactly one rule with the returned
\* id, with the inputs of the call and a status among sts.
ListedOnce(t, sts) ==
    LET id == ReturnedId(t)
        lst == get_serializable_forwards(active_forwards')
        at == {i \in 1..Len(lst) : lst[i].id = id}
    IN /\ Cardinality(at) = 1
       /\ \A i \in at :
            /\ lst[i].protocol = Upper(req[t].cfg.protocol)
            /\ lst[i].local_port = req[t].cfg.local_port
            /\ lst[i].remote_host = req[t].cfg.remote_host
            /\ lst[i].remote_port = req[t].cfg.remote_port
            /\ lst[i].status \in sts
            /\ lst[i].status = "error" => lst[i].error # NoError

C4_StopUnknownChangesNothing ==
    [][\A t \in Threads, id \in Ids :
          (id \notin DOMAIN active_forwards /\ ApiStopForward(t, id, "ok"))
          => ( /\ ~stop_forward(active_forwards, workers, stats, pm, disk, id, now, "ok").ok
               /\ UNCHANGED <<active_forwards, stats, workers, pm, disk, stopped>> )]_vars

\* An unknown id can be asked for while rules, workers and files exist.
C4_Witness ==
    /\ \E id \in Ids : id \notin DOMAIN active_forwards /\ id \in stopped
    /\ active_forwards # <<>>
    /\ disk.forwards_file.st = "ok"

\* C5: stop_forward of an id that is in the registry returns True and removes
\* that rule and no other; a second stop_forward of the same id returns False
\* and changes nothing.
C5_StopKnownRemovesOnlyIt ==
    [][\A t \in Threads, id \in Ids :
          (id \in DOMAIN active_forwards /\ ApiStopForward(t, id, "ok"))
          => ( /\ stop_forward(active_forwards, workers, stats, pm, disk, id, now, "ok").ok
               /\ active_forwards' = Del(active_forwards, id)
               /\ id \in stopped'
               /\ LET again == stop_forward(active_forwards', workers', stats', pm', disk',
                                            id, now', "ok")
                  IN /\ ~again.ok
                     /\ again.af = active_forwards'
                     /\ again.ws = workers'
                     /\ again.disk = disk' )]_vars

\* A rule has been stopped while another rule is still registered.
C5_Witness == stopped # {} /\ active_forwards # <<>>

\* C6: after stop_forward(id) has returned True, the listening socket of
\* that rule's worker is not open.
C6_StoppedListenerClosed ==
    \A id \in stopped : id \in DOMAIN workers => workers[id].lsock # "open"

(***************************************************************************)
(* Persistence.                                                            *)
(***************************************************************************)
PersistedRecordOk(rec) == rec.status = "stopped" /\ DOMAIN rec = PersistedKeys

\* C7: every rule record in the persisted rules file has status stopped,
\* whatever the status in memory, and holds the persisted keys only: no
\* thread, server or socket handle is written.
C7_PersistedRulesStopped ==
    disk.forwards_file.st = "ok" =>
        \A id \in DOMAIN disk.forwards_file.data :
            PersistedRecordOk(disk.forwards_file.data[id])

\* A rule that is running in memory, with its thread handle, is in the file.
C7_Witness ==
    /\ disk.forwards_file.st = "ok"
    /\ \E id \in DOMAIN disk.forwards_file.data \cap DOMAIN active_forwards :
          /\ active_forwards[id].status = "running"
          /\ HasHandle(active_forwards[id])

\* C8: a save of a value whose hash equals the stored hash of its kind
\* returns success and leaves the kind's file and the backup directory as
\* they were, however the file system would have answered a write.
C8_UnchangedSaveWritesNothing ==
    \A io \in IOOutcomes :
        LET mf == MemForwards(active_forwards, workers)
            f == save_forwards(pm, disk, mf, now, io)
            s == save_stats(pm, disk, stats, now, io)
            x == save_security_data(pm, disk, sec, now, io)
        IN /\ ForwardsHash(mf) = pm.last_forwards_hash => f.ok /\ f.disk = disk
           /\ _calculate_hash(stats, TRUE) = pm.last_stats_hash => s.ok /\ s.disk = disk
           /\ _calculate_hash(SecurityData(sec), TRUE) = pm.last_security_hash =>
                  x.ok /\ x.disk = disk

\* All three kinds have been written, the values in memory are the ones
\* hashed, and a rule and a recorded hit are among them.
C8_Witness ==
    /\ disk.forwards_file.st = "ok" /\ disk.stats_file.st = "ok"
    /\ disk.security_file.st = "ok"
    /\ active_forwards # << >> /\ sec.honeypot_hits # << >>
    /\ ForwardsHash(MemForwards(active_forwards, workers)) = pm.last_forwards_hash
    /\ _calculate_hash(stats, TRUE) = pm.last_stats_hash
    /\ _calculate_hash(SecurityData(sec), TRUE) = pm.last_security_hash

\* C9: a save whose write fails leaves the stored hash of each kind as it was
\* before the call.
C9_FailedSaveKeepsHash ==
    [][ApiManualSave("T2", "dump_fails") =>
          /\ pm'.last_forwards_hash = pm.last_forwards_hash
          /\ pm'.last_stats_hash = pm.last_stats_hash
          /\ pm'.last_security_hash = pm.last_security_hash]_vars

RuleFields(r) ==
    [id |-> r.id, protocol |-> r.protocol, local_port |-> r.local_port,
     remote_host |-> r.remote_host, remote_port |-> r.remote_port,
     created_time |-> r.created_time, error |-> r.error]

Counters(st) == [k \in StatKeys |-> st[k]]

Written(old, new) == new # old /\ new.st = "ok"

\* A save that writes puts the value in memory into the file.
SaveWritesValue ==
    /\ Written(disk.forwards_file, disk'.forwards_file) =>
          LET data == disk'.forwards_file.data
          IN /\ DOMAIN data = DOMAIN active_forwards'
             /\ \A id \in DOMAIN data :
                   /\ RuleFields(data[id]) = RuleFields(active_forwards'[id])
                   /\ data[id].status = "stopped"
    /\ Written(disk.stats_file, disk'.stats_file) =>
          Counters(disk'.stats_file.data) = Counters(stats')
    /\ Written(disk.security_file, disk'.security_file) =>
          SecurityData(disk'.security_file.data) = SecurityData(sec')

\* A load of the rules and of the counters returns what the file holds.
LoadReturnsRulesAndCounters ==
    /\ disk.forwards_file.st = "ok" =>
          LET data == disk.forwards_file.data
          IN /\ DOMAIN active_forwards' = DOMAIN data
             /\ \A id \in DOMAIN data :
                   /\ RuleFields(active_forwards'[id]) = RuleFields(data[id])
                   /\ active_forwards'[id].status = "stopped"
    /\ disk.stats_file.st = "ok" => Counters(stats') = Counters(disk.stats_file.data)

Unexpired(blocked, t) == [ip \in {i \in DOMAIN blocked : t < blocked[i]} |-> blocked[ip]]

\* C10 as stated: a save that writes followed by a load returns the saved
\* value in all persisted fields: the fields of every rule, the four counters
\* and the four maps of the abuse state.
C10_RoundTrip ==
    [][/\ SaveWritesValue
       /\ ApiRestoreData("T2") =>
             /\ LoadReturnsRulesAndCounters
             /\ disk.security_file.st = "ok" =>
                   SecurityData(sec') = SecurityData(disk.security_file.data)]_vars

\* C10 amended: as stated for the rules, the counters and three of the maps;
\* of blocked_ips the load returns the saved entries whose expiry is later
\* than the time of the load.
C10_RoundTrip_Amended ==
    [][/\ SaveWritesValue
       /\ ApiRestoreData("T2") =>
             /\ LoadReturnsRulesAndCounters
             /\ disk.security_file.st = "ok" =>
                   LET data == disk.security_file.data
                   IN /\ sec'.failed_attempts = data.failed_attempts
                      /\ sec'.scanner_detection = data.scanner_detection
                      /\ sec'.honeypot_hits = data.honeypot_hits
                      /\ sec'.blocked_ips = Unexpired(data.blocked_ips, now)]_vars

\* The three files were written and loaded again, after a block in the
\* security file had expired: memory holds the saved rule, counters and hits,
\* and not the block.
C10_Witness ==
    /\ disk.forwards_file.st = "ok" /\ disk.stats_file.st = "ok"
    /\ disk.security_file.st = "ok"
    /\ disk.forwards_file.data # << >>
    /\ \A id \in DOMAIN active_forwards : active_forwards[id].status = "stopped"
    /\ DOMAIN active_forwards = DOMAIN disk.forwards_file.data
    /\ stats = disk.stats_file.data /\ stats.bytes_transferred > 0
    /\ \E ip \in DOMAIN disk.security_file.data.blocked_ips :
          /\ disk.security_file.data.blocked_ips[ip] <= now
          /\ ip \notin DOMAIN sec.blocked_ips
          /\ ip \in DOMAIN sec.honeypot_hits
    /\ pm.last_security_hash = _calculate_hash(SecurityData(sec), TRUE)

\* C11: when the write of a save fails, a data file that held persisted
\* content before the call still exists with that content: the old data is
\* not moved away or destroyed before the new data is written.
C11_FailedWriteKeepsOldFile ==
    [][ApiManualSave("T2", "dump_fails") =>
          /\ disk.forwards_file.st = "ok" => disk'.forwards_file = disk.forwards_file
          /\ disk.stats_file.st = "ok" => disk'.stats_file = disk.stats_file
          /\ disk.security_file.st = "ok" =>
                disk'.security_file = disk.security_file]_vars

BackupsOf(d, kind) == {b \in d.backups : b.kind = kind}

DataFile(d, kind) ==
    CASE kind = "forwards" -> d.forwards_file
      [] kind = "stats" -> d.stats_file
      [] OTHER -> d.security_file

\* A save of kind has moved the existing data file into the backup directory.
Rotates(kind) ==
    /\ DataFile(disk, kind).st # "absent"
    /\ DataFile(disk', kind) # DataFile(disk, kind)

\* C12: every rotation adds the rotated version to the kind's backups without
\* overwriting or losing an earlier one, also when two saves fall in the same
\* clock second, and cleanup_old_backups leaves at most the 3 most recent:
\* after a rotation the kind has one backup more than before, or 3.
C12_RotationKeepsEarlierBackups ==
    [][\A kind \in BackupKinds :
          /\ Rotates(kind) =>
                LET before == Cardinality(BackupsOf(disk, kind))
                    after == Cardinality(BackupsOf(disk', kind))
                IN after >= (IF before + 1 < KeepBackups THEN before + 1 ELSE KeepBackups)
          /\ (\E io \in ManualSaveOutcomes : ApiManualSave("T2", io)) =>
                Cardinality(BackupsOf(disk', kind)) <= KeepBackups]_vars

\* C13: after a load of an existing, readable file, a save of the loaded
\* value with nothing changed in between returns success and writes nothing,
\* for each of the three kinds and however the file system would answer.
C13_SaveAfterLoadWritesNothing ==
    \A io \in IOOutcomes :
        /\ disk.forwards_file.st = "ok" =>
              LET l == load_forwards(pm, disk)
                  s == save_forwards(l.pm, disk, l.value, now, io)
              IN s.ok /\ s.disk = disk
        /\ disk.stats_file.st = "ok" =>
              LET l == load_stats(pm, disk, now)
                  s == save_stats(l.pm, disk, l.value, now, io)
              IN s.ok /\ s.disk = disk
        /\ disk.security_file.st = "ok" =>
              LET l == load_security_data(pm, disk, sec, now)
                  s == save_security_data(l.pm, disk, l.value, now, io)
              IN s.ok /\ s.disk = disk

\* The three files hold a rule, forwarded bytes and a honeypot hit, and
\* memory is what a load of them returns.
C13_Witness ==
    /\ disk.forwards_file.st = "ok" /\ disk.forwards_file.data # << >>
    /\ disk.stats_file.st = "ok" /\ disk.stats_file.data.bytes_transferred > 0
    /\ disk.security_file.st = "ok"
    /\ disk.security_file.data.honeypot_hits # << >>
    /\ active_forwards = load_forwards(pm, disk).value
    /\ stats = load_stats(pm, disk, now).value
    /\ sec = load_security_data(pm, disk, sec, now).value
    /\ pm = load_security_data(load_stats(load_forwards(pm, disk).pm, disk, now).pm,
                               disk, sec, now).pm

(***************************************************************************)
(* Loading files that another version of the program, or a failed write,   *)
(* has left in the data directory.                                         *)
(***************************************************************************)
MaxMissing == 1      \* keys a stored rule record may lack

Restrict(f, keys) == [k \in DOMAIN f \cap keys |-> f[k]]

StoredRule == PersistedRule(1, "udp", 1)
StoredStats ==
    [total_connections |-> 1, active_connections |-> 1,
     bytes_transferred |-> 1, start_time |-> 0]
StoredSecurity ==
    [failed_attempts |-> Put(<<>>, "ip1", <<0>>),
     blocked_ips |-> Put(<<>>, "ip1", HoneypotBlock),
     scanner_detection |-> Put(<<>>, "ip1", <<[path |-> "/x", time |-> 0]>>),
     honeypot_hits |-> Put(<<>>, "ip1", <<[path |-> "/admin", time |-> 0]>>),
     save_time |-> 0]

\* A file that is missing, unreadable, or holds a subset of the keys.
FilesOf(full, keysets) ==
    {AbsentFile, TornFile(0)} \cup {WrittenFile(Restrict(full, K), 0) : K \in keysets}

LoadDisks ==
    LET ruleKeys == {K \in SUBSET PersistedKeys :
                        Cardinality(PersistedKeys \ K) <= MaxMissing}
        rules == {AbsentFile, TornFile(0)} \cup
                 {WrittenFile(Put(<<>>, 1, Restrict(StoredRule, K)), 0) : K \in ruleKeys}
        mapKeys == {K \cup {"save_time"} : K \in SUBSET DOMAIN EmptySec}
    IN [forwards_file : rules,
        stats_file : FilesOf(StoredStats, SUBSET StatKeys),
        security_file : FilesOf(StoredSecurity, mapKeys),
        backups : {{}}]

\* The program was started on an empty data directory; the files are then
\* put in place and loaded through the restore endpoint.
InitLoad ==
    \E d \in LoadDisks :
       LET c == Constructed(EmptyDisk, {}, 0, {})
       IN /\ active_forwards = c.af
          /\ stats = c.stats
          /\ workers = c.ws
          /\ pm = c.pm
          /\ sec = c.sec
          /\ disk = d
          /\ running = TRUE
          /\ ext_ports = {}
          /\ req = [t \in Threads |-> IdleReq]
          /\ stopped = {}
          /\ next_id = 1
          /\ now = 0
          /\ ticks = 0

NextLoad ==
    \/ ApiRestoreData("T1")
    \/ \E ip \in IPs, path \in Paths : HoneypotRequest(ip, path)
    \/ \E d \in TickSteps : Tick(d)

SpecLoad == InitLoad /\ [][NextLoad]_vars

\* C14: a load returns the kind's default when the file is missing or
\* unreadable, and otherwise the stored fields with every missing field
\* filled with its default, for rules, counters and abuse state.
C14_LoadBackFills ==
    [][ApiRestoreData("T1") =>
          /\ disk.forwards_file.st # "ok" => active_forwards' = << >>
          /\ disk.forwards_file.st = "ok" =>
                /\ DOMAIN active_forwards' = DOMAIN disk.forwards_file.data
                /\ \A id \in DOMAIN disk.forwards_file.data :
                      LET rec == disk.forwards_file.data[id]
                      IN /\ PersistedKeys \subseteq DOMAIN active_forwards'[id]
                         /\ \A k \in DOMAIN rec : active_forwards'[id][k] = rec[k]
          /\ disk.stats_file.st # "ok" => stats' = DefaultStats(now)
          /\ disk.stats_file.st = "ok" =>
                \A k \in StatKeys :
                   stats'[k] = IF k \in DOMAIN disk.stats_file.data
                               THEN disk.stats_file.data[k] ELSE DefaultStats(now)[k]
          /\ disk.security_file.st # "ok" => sec' = EmptySec
          /\ disk.security_file.st = "ok" =>
                LET data == disk.security_file.data
                IN /\ sec'.failed_attempts = GetMap(data, "failed_attempts")
                   /\ sec'.scanner_detection = GetMap(data, "scanner_detection")
                   /\ sec'.honeypot_hits = GetMap(data, "honeypot_hits")
                   /\ sec'.blocked_ips =
                         Unexpired(GetMap(data, "blocked_ips"), now)]_vars

(***************************************************************************)
(* The abuse guard in front of the control plane.                          *)
(***************************************************************************)
MaxAbuseTicks == 2   \* clock advances in one run of the abuse guard

AbuseIPs == {"ip1", "ip2"}
AdminPath == "/panel"
ApiPath == "/sec/api/persistence/restore"
ScanPaths == {"/x"}
AbuseSteps == {BlockTime, ScannerWindow, FailedWindow}

security_check_mut_no_gate(s, ip, path, t) ==
    LET b == is_ip_blocked(s, ip, t)
    IN IF path \in Paths
       THEN [resp |-> "404", sec |-> record_honeypot_hit(b.sec, ip, path, t)]
       ELSE IF path # AdminPath /\ path # ApiPath
       THEN [resp |-> "404", sec |-> record_scanner_behavior(b.sec, ip, path, t).sec]
       ELSE [resp |-> "pass", sec |-> b.sec]

\* security_check, for a request with an ordinary User-Agent: returns the
\* response ("pass" when the request goes on to its handler) and the abuse
\* state after the check.
security_check(s, ip, path, t) ==
    LET b == is_ip_blocked(s, ip, t)
    IN IF b.blocked THEN [resp |-> "403", sec |-> s]
       ELSE IF path \in Paths
       THEN [resp |-> "404", sec |-> record_honeypot_hit(b.sec, ip, path, t)]
       ELSE IF path # AdminPath /\ path # ApiPath
       THEN [resp |-> "404", sec |-> record_scanner_behavior(b.sec, ip, path, t).sec]
       ELSE [resp |-> "pass", sec |-> b.sec]

\* A request for a path that is no route of the application.
ProbeRequest(ip, path) ==
    /\ Len(GetList(sec.honeypot_hits, ip)) < MaxHits
    /\ Len(GetList(sec.scanner_detection, ip)) <= ScannerThreshold
    /\ sec' = security_check(sec, ip, path, now).sec
    /\ UNCHANGED <<active_forwards, stats, running, workers, ext_ports, req, stopped,
                   next_id, pm, disk, now, ticks>>

\* login: POST of a password to the admin path.
LoginRequest(ip, password_ok) ==
    /\ Len(GetList(sec.failed_attempts, ip)) <= MaxAttempts
    /\ LET c == security_check(sec, ip, AdminPath, now)
       IN sec' = IF c.resp # "pass" THEN c.sec
                 ELSE IF password_ok THEN clear_failed_attempts(c.sec, ip)
                 ELSE record_failed_attempt(c.sec, ip, now)
    /\ UNCHANGED <<active_forwards, stats, running, workers, ext_ports, req, stopped,
                   next_id, pm, disk, now, ticks>>

\* index: GET of the admin path; the handler changes nothing.
PageRequest(ip) ==
    /\ sec' = security_check(sec, ip, AdminPath, now).sec
    /\ UNCHANGED <<active_forwards, stats, running, workers, ext_ports, req, stopped,
                   next_id, pm, disk, now, ticks>>

\* A request for the restore endpoint that security_check lets pass, from an
\* IP with no expired block left to evict.
RestoreRequest(ip, t) ==
    /\ security_check(sec, ip, ApiPath, now) = [resp |-> "pass", sec |-> sec]
    /\ ApiRestoreData(t)

AbuseTick(d) ==
    /\ ticks < MaxAbuseTicks
    /\ now' = now + d
    /\ ticks' = ticks + 1
    /\ UNCHANGED <<active_forwards, stats, running, workers, ext_ports, req, stopped,
                   next_id, pm, disk, sec>>

InitAbuse == InitFrom(EmptyDisk, {})

NextAbuse ==
    \/ \E ip \in AbuseIPs, path \in Paths : ProbeRequest(ip, path)
    \/ \E ip \in IPs, path \in ScanPaths : ProbeRequest(ip, path)
    \/ \E ip \in IPs, password_ok \in BOOLEAN : LoginRequest(ip, password_ok)
    \/ \E ip \in AbuseIPs : PageRequest(ip)
    \/ \E ip \in AbuseIPs : RestoreRequest(ip, "T1")
    \/ \E d \in AbuseSteps : AbuseTick(d)

SpecAbuse == InitAbuse /\ [][NextAbuse]_vars

Young(lst, t, window) == {i \in 1..Len(lst) : t - lst[i] < window}

\* C15: after record_failed_attempt(ip) the list of ip holds the earlier
\* failures less than 1 hour old, in their order, and the new one; the call
\* blocks ip until now + 300 exactly when at least 5 failures survive, and
\* otherwise leaves blocked_ips as it was. Five calls make ip blocked, and an
\* ip whose fifth or later surviving failure is being recorded is blocked.
C15_FailedAttemptsBlock ==
    \A ip \in AbuseIPs :
       LET old == GetList(sec.failed_attempts, ip)
           r == record_failed_attempt(sec, ip, now)
           new == r.failed_attempts[ip]
           r2 == record_failed_attempt(r, ip, now)
           r3 == record_failed_attempt(r2, ip, now)
           r4 == record_failed_attempt(r3, ip, now)
           r5 == record_failed_attempt(r4, ip, now)
       IN /\ Len(new) = Cardinality(Young(old, now, FailedWindow)) + 1
          /\ new[Len(new)] = now
          /\ \A i \in 1..Len(new) : now - new[i] < FailedWindow
          /\ SubSeq(new, 1, Len(new) - 1) =
                SelectSeq(old, LAMBDA x : now - x < FailedWindow)
          /\ Len(new) >= MaxAttempts =>
                r.blocked_ips = Put(sec.blocked_ips, ip, now + BlockTime)
          /\ Len(new) < MaxAttempts => r.blocked_ips = sec.blocked_ips
          /\ is_ip_blocked(r5, ip, now).blocked
          /\ (Len(old) >= MaxAttempts /\ old[Len(old)] = now) =>
                is_ip_blocked(sec, ip, now).blocked

\* Five failures recorded at more than one time within the hour, and the
\* block of 300 seconds set by the last of them.
C15_Witness ==
    \E ip \in AbuseIPs :
       LET lst == GetList(sec.failed_attempts, ip)
       IN /\ Len(lst) >= MaxAttempts
          /\ lst[1] < lst[Len(lst)]
          /\ ip \in DOMAIN sec.blocked_ips
          /\ sec.blocked_ips[ip] = lst[Len(lst)] + BlockTime

\* C16: is_ip_blocked(ip) is true exactly when blocked_ips holds an entry
\* for ip with an expiry later than now, and then changes nothing; when the
\* expiry has passed it is false and the call removes the entry of ip and
\* leaves every other entry, and the other maps, as they were.
C16_BlockedUntilExpiry ==
    \A ip \in AbuseIPs :
       LET b == is_ip_blocked(sec, ip, now)
           had == ip \in DOMAIN sec.blocked_ips
       IN /\ b.blocked <=> (had /\ sec.blocked_ips[ip] > now)
          /\ b.blocked => b.sec = sec
          /\ ~b.blocked =>
                /\ DOMAIN b.sec.blocked_ips = DOMAIN sec.blocked_ips \ {ip}
                /\ \A o \in DOMAIN b.sec.blocked_ips :
                      b.sec.blocked_ips[o] = sec.blocked_ips[o]
                /\ b.sec.failed_attempts = sec.failed_attempts
                /\ b.sec.scanner_detection = sec.scanner_detection
                /\ b.sec.honeypot_hits = sec.honeypot_hits

\* The block of one IP has expired and been evicted by a lookup while the
\* other IP is still blocked.
C16_Witness ==
    \E ip, o \in AbuseIPs :
       /\ ip # o
       /\ ip \in DOMAIN sec.honeypot_hits
       /\ ip \notin DOMAIN sec.blocked_ips
       /\ o \in DOMAIN sec.blocked_ips
       /\ sec.blocked_ips[o] > now

IsPrefix(a, b) == Len(a) <= Len(b) /\ SubSeq(b, 1, Len(a)) = a

\* C17: one record_honeypot_hit(ip, path) appends (path, now) to the hits of
\* ip and blocks ip until now + 7200, whatever ip's history; 7200 is more
\* than the scanner block of 3600; and no step of the abuse guard removes an
\* entry from honeypot_hits.
C17_HoneypotBlocksAtOnce ==
    [][/\ HoneypotBlock > ScannerBlock
       /\ \A ip \in AbuseIPs, path \in Paths :
             LET r == record_honeypot_hit(sec, ip, path, now)
             IN /\ r.honeypot_hits[ip] =
                      Append(GetList(sec.honeypot_hits, ip), [path |-> path, time |-> now])
                /\ \A o \in DOMAIN sec.honeypot_hits \ {ip} :
                      r.honeypot_hits[o] = sec.honeypot_hits[o]
                /\ r.blocked_ips[ip] = now + HoneypotBlock
                /\ is_ip_blocked(r, ip, now).blocked
       /\ \A ip \in DOMAIN sec.honeypot_hits :
             /\ ip \in DOMAIN sec'.honeypot_hits
             /\ IsPrefix(sec.honeypot_hits[ip], sec'.honeypot_hits[ip])]_vars

\* An IP with failed logins and scanner entries on record has hit a
\* honeypot path later on and is blocked for 7200 seconds from that hit.
C17_Witness ==
    \E ip \in AbuseIPs :
       /\ ip \in DOMAIN sec.failed_attempts
       /\ ip \in DOMAIN sec.scanner_detection
       /\ ip \in DOMAIN sec.honeypot_hits
       /\ sec.honeypot_hits[ip][1].time > 0
       /\ ip \in DOMAIN sec.blocked_ips
       /\ sec.blocked_ips[ip] = sec.honeypot_hits[ip][1].time + HoneypotBlock

Surviving(lst, t) == SelectSeq(lst, LAMBDA e : ~(t - e.time >= ScannerWindow))

\* C18: record_scanner_behavior(ip, path) appends (path, now) to the entries
\* of ip and drops the entries 30 minutes old or older; it returns true and
\* blocks ip until now + 3600 exactly when at least 3 entries survive, and
\* otherwise returns false and leaves blocked_ips as it was.
C18_ScannerBlocksAtThree ==
    \A ip \in AbuseIPs, path \in ScanPaths :
       LET r == record_scanner_behavior(sec, ip, path, now)
           all == Append(GetList(sec.scanner_detection, ip), [path |-> path, time |-> now])
           kept == Surviving(all, now)
       IN /\ r.sec.scanner_detection[ip] = kept
          /\ kept[Len(kept)] = [path |-> path, time |-> now]
          /\ r.triggered <=> Len(kept) >= 3
          /\ r.triggered => r.sec.blocked_ips = Put(sec.blocked_ips, ip, now + 3600)
          /\ ~r.triggered => r.sec.blocked_ips = sec.blocked_ips
          /\ r.sec.failed_attempts = sec.failed_attempts
          /\ r.sec.honeypot_hits = sec.honeypot_hits

\* An IP has three probes less than 30 minutes old on record, made after
\* the clock moved, and the block of 3600 seconds the third one set.
C18_Witness ==
    \E ip \in AbuseIPs :
       LET lst == GetList(sec.scanner_detection, ip)
       IN /\ Len(lst) >= 3
          /\ lst[1].time > 0
          /\ now - lst[1].time < ScannerWindow
          /\ ip \in DOMAIN sec.blocked_ips
          /\ sec.blocked_ips[ip] = lst[Len(lst)].time + ScannerBlock

RequestPaths == Paths \cup ScanPaths \cup {AdminPath, ApiPath}

\* C19: a request from an IP that is_ip_blocked reports blocked is answered
\* 403 by security_check with the abuse state as it was, and no handler
\* runs for it: no step that changes the state is a probe, a login, a page
\* request or a restore of that IP, so no honeypot hit, scanner entry or
\* failed attempt is recorded and no rule, counter or file is touched.
C19_BlockedRequestRejectedFirst ==
    [][\A ip \in AbuseIPs :
          is_ip_blocked(sec, ip, now).blocked =>
             /\ \A path \in RequestPaths :
                   security_check(sec, ip, path, now) = [resp |-> "403", sec |-> sec]
             /\ ~(\E path \in Paths \cup ScanPaths : ProbeRequest(ip, path))
             /\ ~(\E password_ok \in BOOLEAN : LoginRequest(ip, password_ok))
             /\ ~PageRequest(ip)
             /\ ~RestoreRequest(ip, "T1")]_vars

\* An IP is blocked at a time when each of its requests would leave a
\* trace if it were let through: the clock has moved since construction, so
\* a restore would reset start_time, and the lists of the IP have room.
C19_Witness ==
    \E ip \in AbuseIPs :
       /\ is_ip_blocked(sec, ip, now).blocked
       /\ now > 0
       /\ ip \in DOMAIN sec.failed_attempts
       /\ Len(GetList(sec.scanner_detection, ip)) < ScannerThreshold
       /\ stats.start_time # now

(***************************************************************************)
(* Traffic: two restored rules, each with its own worker thread, forward   *)
(* connections and datagrams and update the shared counters. A statement   *)
(* self.stats[k] += n reads the counter, adds, and stores the sum; nothing *)
(* keeps another thread from running between the read and the store. The   *)
(* connections of one TCP rule are coroutines of one event loop and give   *)
(* way only at an await, so one connection at a time per rule shows every  *)
(* interleaving of the counter accesses.                                   *)
(***************************************************************************)
MaxConns == 2        \* connections accepted by one TCP rule
MaxSent == 1         \* bytes forwarded by one rule

TrafficDisks ==
    {[EmptyDisk EXCEPT !.forwards_file =
         WrittenFile(Put(Put(<<>>, 1, PersistedRule(1, "udp", 1)),
                         2, PersistedRule(2, "tcp", 1)), 0)],
     [EmptyDisk EXCEPT !.forwards_file =
         WrittenFile(Put(Put(<<>>, 1, PersistedRule(1, "tcp", 1)),
                         2, PersistedRule(2, "tcp", MaxPort + 1)), 0)]}

Serving(id, proto) ==
    /\ id \in DOMAIN workers
    /\ workers[id].protocol = proto
    /\ workers[id].st = "serving"
    /\ workers[id].lsock = "open"

TcpDial_mut_counts_failed(id, dial_ok) ==
    /\ Serving(id, "TCP")
    /\ workers[id].pc = "idle"
    /\ workers[id].conns < MaxConns
    /\ workers' = [workers EXCEPT ![id].pc = "store_total",
                                  ![id].reg = stats.total_connections,
                                  ![id].conns = @ + 1,
                                  ![id].dials = @ + 1]
    /\ UNCHANGED <<active_forwards, stats, running, ext_ports, req, stopped, next_id,
                   pm, disk, sec, now, ticks>>

\* handle_tcp_client up to the first counter access: open_connection
\* succeeds and total_connections is read, or it raises and the finally
\* clause reads active_connections.
TcpDial(id, dial_ok) ==
    /\ Serving(id, "TCP")
    /\ workers[id].pc = "idle"
    /\ workers[id].conns < MaxConns
    /\ workers' =
          IF dial_ok
          THEN [workers EXCEPT ![id].pc = "store_total",
                               ![id].reg = stats.total_connections,
                               ![id].conns = @ + 1,
                               ![id].dials = @ + 1]
          ELSE [workers EXCEPT ![id].pc = "store_closed",
                               ![id].reg = stats.active_connections,
                               ![id].conns = @ + 1]
    /\ UNCHANGED <<active_forwards, stats, running, ext_ports, req, stopped, next_id,
                   pm, disk, sec, now, ticks>>

\* self.stats['total_connections'] += 1: the store.
StoreTotal(id) ==
    /\ id \in DOMAIN workers
    /\ workers[id].pc = "store_total"
    /\ stats' = [stats EXCEPT !.total_connections = workers[id].reg + 1]
    /\ workers' = [workers EXCEPT ![id].pc = "load_active"]
    /\ UNCHANGED <<active_forwards, running, ext_ports, req, stopped, next_id,
                   pm, disk, sec, now, ticks>>

\* self.stats['active_connections'] += 1: the read.
LoadActive(id) ==
    /\ id \in DOMAIN workers
    /\ workers[id].pc = "load_active"
    /\ workers' = [workers EXCEPT ![id].pc = "store_active",
                                  ![id].reg = stats.active_connections]
    /\ UNCHANGED <<active_forwards, stats, running, ext_ports, req, stopped, next_id,
                   pm, disk, sec, now, ticks>>

\* self.stats['active_connections'] += 1: the store.
StoreActive(id) ==
    /\ id \in DOMAIN workers
    /\ workers[id].pc = "store_active"
    /\ stats' = [stats EXCEPT !.active_connections = workers[id].reg + 1]
    /\ workers' = [workers EXCEPT ![id].pc = "copy"]
    /\ UNCHANGED <<active_forwards, running, ext_ports, req, stopped, next_id,
                   pm, disk, sec, now, ticks>>

\* copy_data: a chunk of n bytes is read and written on, and
\* bytes_transferred is read.
CopyChunk(id, n) ==
    /\ id \in DOMAIN workers
    /\ workers[id].pc = "copy"
    /\ workers[id].sent + n <= MaxSent
    /\ workers' = [workers EXCEPT ![id].pc = "store_bytes",
                                  ![id].reg = stats.bytes_transferred,
                                  ![id].len = n]
    /\ UNCHANGED <<active_forwards, stats, running, ext_ports, req, stopped, next_id,
                   pm, disk, sec, now, ticks>>

\* udp_server's loop body: a datagram of n bytes is received and sent on,
\* and bytes_transferred is read.
UdpRecv(id, n) ==
    /\ Serving(id, "UDP")
    /\ running /\ id \in DOMAIN active_forwards
    /\ workers[id].pc = "idle"
    /\ workers[id].sent + n <= MaxSent
    /\ workers' = [workers EXCEPT ![id].pc = "store_bytes",
                                  ![id].reg = stats.bytes_transferred,
                                  ![id].len = n]
    /\ UNCHANGED <<active_forwards, stats, running, ext_ports, req, stopped, next_id,
                   pm, disk, sec, now, ticks>>

\* self.stats['bytes_transferred'] += len(data): the store, in copy_data and
\* in udp_server.
StoreBytes(id) ==
    /\ id \in DOMAIN workers
    /\ workers[id].pc = "store_bytes"
    /\ stats' = [stats EXCEPT !.bytes_transferred = workers[id].reg + workers[id].len]
    /\ workers' = [workers EXCEPT
                      ![id].pc = IF workers[id].protocol = "TCP" THEN "copy" ELSE "idle",
                      ![id].sent = @ + workers[id].len,
                      ![id].len = 0]
    /\ UNCHANGED <<active_forwards, running, ext_ports, req, stopped, next_id,
                   pm, disk, sec, now, ticks>>

Directions == {"to_remote", "to_client"}

\* copy_data of one direction returns: its reader has met the end of the
\* stream (the peer closed) or raised. Nothing is closed and the coroutine
\* of the other direction is left as it is.
CopyDataEnd(id, dir) ==
    /\ id \in DOMAIN workers
    /\ workers[id].pc = "copy"
    /\ dir \notin workers[id].ended
    /\ workers' = [workers EXCEPT ![id].ended = @ \cup {dir}]
    /\ UNCHANGED <<active_forwards, stats, running, ext_ports, req, stopped, next_id,
                   pm, disk, sec, now, ticks>>

\* asyncio.gather returns once both copy_data coroutines have returned; the
\* finally clause of handle_tcp_client reads active_connections.
CopyEnd(id) ==
    /\ id \in DOMAIN workers
    /\ workers[id].pc = "copy"
    /\ workers[id].ended = Directions
    /\ workers' = [workers EXCEPT ![id].pc = "store_closed",
                                  ![id].ended = {},
                                  ![id].reg = stats.active_connections]
    /\ UNCHANGED <<active_forwards, stats, running, ext_ports, req, stopped, next_id,
                   pm, disk, sec, now, ticks>>

\* self.stats['active_connections'] -= 1: the store; the connection is over.
StoreClosed(id) ==
    /\ id \in DOMAIN workers
    /\ workers[id].pc = "store_closed"
    /\ stats' = [stats EXCEPT !.active_connections = workers[id].reg - 1]
    /\ workers' = [workers EXCEPT ![id].pc = "idle"]
    /\ UNCHANGED <<active_forwards, running, ext_ports, req, stopped, next_id,
                   pm, disk, sec, now, ticks>>

InitTraffic == \E d \in TrafficDisks : InitFrom(d, {})

NextTraffic ==
    \/ \E id \in Ids : TcpBind(id)
    \/ \E id \in Ids : UdpBind(id, TRUE)
    \/ \E id \in Ids, dial_ok \in BOOLEAN : TcpDial(id, dial_ok)
    \/ \E id \in Ids : StoreTotal(id)
    \/ \E id \in Ids : LoadActive(id)
    \/ \E id \in Ids : StoreActive(id)
    \/ \E id \in Ids, n \in DatagramLens : CopyChunk(id, n)
    \/ \E id \in Ids, n \in DatagramLens : UdpRecv(id, n)
    \/ \E id \in Ids : StoreBytes(id)
    \/ \E id \in Ids, dir \in Directions : CopyDataEnd(id, dir)
    \/ \E id \in Ids : CopyEnd(id)
    \/ \E id \in Ids : StoreClosed(id)

SpecTraffic == InitTraffic /\ [][NextTraffic]_vars

RECURSIVE SumOver(_, _)
SumOver(ws, field) ==
    IF DOMAIN ws = {} THEN 0
    ELSE LET id == CHOOSE x \in DOMAIN ws : TRUE
         IN ws[id][field] + SumOver([x \in DOMAIN ws \ {id} |-> ws[x]], field)

AllConnectionsEnded == \A id \in DOMAIN workers : workers[id].pc = "idle"

\* C20: once every connection has ended, total_connections equals the
\* number of connections whose outbound dial succeeded and bytes_transferred
\* the sum of the lengths of the TCP chunks and UDP datagrams forwarded,
\* whatever the interleaving of the workers (the counters start at 0).
C20_NoLostUpdate ==
    AllConnectionsEnded =>
       /\ stats.total_connections = SumOver(workers, "dials")
       /\ stats.bytes_transferred = SumOver(workers, "sent")

\* C21: a rule leaves the registry only in a stop_forward of its id that
\* returns True, and a rule in status error that stays keeps status error
\* and its message, whatever step is taken: a worker failing, another rule
\* started or stopped, a save, a restore from the files.
C21_RuleLeavesOnlyByStop ==
    [][\A id \in DOMAIN active_forwards :
          /\ id \notin DOMAIN active_forwards'
                => \E t \in Threads : ApiStopForward(t, id, "ok")
          /\ (id \in DOMAIN active_forwards' /\ active_forwards[id].status = "error")
                => /\ active_forwards'[id].status = "error"
                   /\ active_forwards'[id].error = active_forwards[id].error]_vars

(***************************************************************************)
(* Startup: PortForwarder() is constructed on a data directory that holds  *)
(* rules, with some ports taken by other processes and some thread starts  *)
(* raising; then the workers bind and rules are stopped.                   *)
(***************************************************************************)
StartupPorts == 1..(MaxPort + 1)

StartupRules ==
    {<<>>,
     Put(<<>>, 1, PersistedRule(1, "tcp", 1)),
     Put(<<>>, 1, PersistedRule(1, "udp", 1)),
     Put(Put(<<>>, 1, PersistedRule(1, "tcp", 1)), 2, PersistedRule(2, "tcp", MaxPort + 1)),
     Put(Put(<<>>, 1, PersistedRule(1, "udp", 1)), 2, PersistedRule(2, "tcp", MaxPort + 1)),
     Put(Put(<<>>, 1, PersistedRule(1, "tcp", 1)), 2, PersistedRule(2, "udp", 1))}

StartupDisks ==
    {[EmptyDisk EXCEPT !.forwards_file = WrittenFile(rules, 0)] : rules \in StartupRules}

InitStartup ==
    \E d \in StartupDisks, ext \in SUBSET StartupPorts, raises \in SUBSET Ids :
       InitAs(Constructed(d, ext, 0, raises), ext)

NextStartup ==
    \/ \E id \in Ids : TcpBind(id)
    \/ \E id \in Ids, bind_ok \in BOOLEAN : UdpBind(id, bind_ok)
    \/ \E id \in Ids : UdpExit(id)
    \/ \E id \in Ids : Finalize(id)
    \/ \E id \in Ids : ApiStopForward("T1", id, "ok")

SpecStartup == InitStartup /\ [][NextStartup]_vars

\* No step has been taken since construction.
JustConstructed ==
    /\ stopped = {}
    /\ \A id \in DOMAIN workers : workers[id].st = "spawned"

ConfiguredFields ==
    {"id", "protocol", "local_port", "remote_host", "remote_port", "created_time"}

AutoSaveInterval == 30
MaxSaveTicks == 2    \* wake-ups of auto_save_thread in one run

\* auto_save: returns [pm, disk].
auto_save(p, d, forwards, st, s, t, io) ==
    IF t - p.last_save_time >= AutoSaveInterval
    THEN LET p0 == [p EXCEPT !.data_changed = FALSE]
             a == save_forwards(p0, d, forwards, t, io)
             b == save_stats(a.pm, a.disk, st, t, io)
             c == save_security_data(b.pm, b.disk, s, t, io)
         IN [pm |-> IF c.pm.data_changed
                    THEN [c.pm EXCEPT !.last_save_time = t] ELSE c.pm,
             disk |-> c.disk]
    ELSE [pm |-> p, disk |-> d]

\* One turn of auto_save_thread's loop: time.sleep(30), then auto_save and
\* cleanup_old_backups if the forwarder is still running.
AutoSaveTick(io) ==
    /\ running
    /\ ticks < MaxSaveTicks
    /\ now' = now + AutoSaveInterval
    /\ ticks' = ticks + 1
    /\ LET r == auto_save(pm, disk, MemForwards(active_forwards, workers), stats, sec,
                          now', io)
       IN /\ pm' = r.pm
          /\ \E kept \in cleanup_old_backups(r.disk.backups, KeepBackups) :
                disk' = [r.disk EXCEPT !.backups = kept]
    /\ UNCHANGED <<active_forwards, stats, running, workers, ext_ports, req, stopped,
                   next_id, sec>>

\* api_check_changes: the three change checks, each of which stores the
\* hash it has just computed.
ApiCheckChanges(t) ==
    /\ req[t].pc = "idle"
    /\ LET a == _check_forwards_changed(pm, MemForwards(active_forwards, workers))
           b == _check_stats_changed(a.pm, stats)
           c == _check_security_changed(b.pm, sec)
       IN pm' = c.pm
    /\ UNCHANGED <<active_forwards, stats, running, workers, ext_ports, req, stopped,
                   next_id, disk, sec, now, ticks>>

InitAutoSave == InitFrom(EmptyDisk, {})

NextAutoSave ==
    \/ \E ip \in AbuseIPs, path \in Paths : HoneypotRequest(ip, path)
    \/ ApiCheckChanges("T1")
    \/ \E io \in ManualSaveOutcomes : ApiManualSave("T2", io)
    \/ AutoSaveTick("ok")

\* The thread scheduler lets auto_save_thread run, and its writes succeed.
SpecAutoSave ==
    InitAutoSave /\ [][NextAutoSave]_vars /\ WF_vars(AutoSaveTick("ok"))

\* What the files hold, a missing or unreadable file counting as the empty
\* value of its kind.
OnDisk(file, empty) == IF file.st = "ok" THEN file.data ELSE empty

Unsaved ==
    \/ SecurityData(sec) # SecurityData(OnDisk(disk.security_file, EmptySec))
    \/ Counters(stats) # Counters(OnDisk(disk.stats_file, DefaultStats(0)))
    \/ DOMAIN active_forwards # DOMAIN OnDisk(disk.forwards_file, <<>>)

\* C23: whenever the rules, the counters or the abuse state in memory differ
\* from what the files hold and auto_save_thread has a wake-up to come, the
\* files eventually hold the state in memory, whatever manual save, change
\* query or failed write came before.
C23_ChangeEventuallySaved ==
    (Unsaved /\ ticks < MaxSaveTicks) ~> ~Unsaved

(***************************************************************************)
(* Shutdown: SIGINT or SIGTERM runs signal_handler, whose sys.exit unwinds *)
(* main through its finally clause.                                        *)
(***************************************************************************)
\* signal_handler and the finally clause of main: forwarder.save_data(),
\* security_manager.save_data(), then the process ends.
Shutdown(io) ==
    /\ running
    /\ running' = FALSE
    /\ LET a == save_data(pm, disk, MemForwards(active_forwards, workers), stats, now, io)
           c == save_security_data(a.pm, a.disk, sec, now, io)
       IN /\ pm' = c.pm
          /\ disk' = c.disk
    /\ UNCHANGED <<active_forwards, stats, workers, ext_ports, req, stopped, next_id,
                   sec, now, ticks>>

InitShutdown == InitFrom(EmptyDisk, {})

NextShutdown ==
    \/ running /\ \E ip \in AbuseIPs, path \in Paths : HoneypotRequest(ip, path)
    \/ running /\ ApiCheckChanges("T1")
    \/ running /\ ApiManualSave("T2", "ok")
    \/ AutoSaveTick("ok")
    \/ Shutdown("ok")

SpecShutdown == InitShutdown /\ [][NextShutdown]_vars

\* C24: once the process has shut down, with the writes of the final flush
\* succeeding, the files hold the rules, the counters and the abuse state
\* that were in memory, whatever the stored hashes were.
C24_ShutdownFlushesEverything ==
    ~running => ~Unsaved

(***************************************************************************)
(* Listing while the registry changes: one thread runs                     *)
(* get_serializable_forwards, whose for loop iterates over                 *)
(* self.active_forwards.items() itself, while another adds and stops       *)
(* rules. A dict iterator raises RuntimeError at its next step when the    *)
(* size of the dict is no longer the one it recorded.                      *)
(***************************************************************************)
\* api_get_forwards calls get_serializable_forwards: the iterator is made.
ListBegin(t) ==
    /\ req[t].pc = "idle"
    /\ req' = [req EXCEPT ![t] = [IdleReq EXCEPT !.pc = "listing",
                                       !.used = Cardinality(DOMAIN active_forwards)]]
    /\ UNCHANGED <<active_forwards, stats, running, workers, ext_ports, stopped, next_id,
                   pm, disk, sec, now, ticks>>

\* One turn of the for loop: the iterator's next step and the append.
ListNext(t) ==
    /\ req[t].pc = "listing"
    /\ LET later == {id \in DOMAIN active_forwards : id > req[t].pos}
       IN IF Cardinality(DOMAIN active_forwards) # req[t].used
          THEN \* RuntimeError: dictionary changed size during iteration
               req' = [req EXCEPT ![t].pc = "list_error"]
          ELSE IF later = {}
          THEN req' = [req EXCEPT ![t].pc = "list_done"]
          ELSE LET m == CHOOSE x \in later : \A y \in later : x <= y
               IN req' = [req EXCEPT ![t].out = Append(@, Summary(active_forwards[m])),
                                     ![t].pos = m]
    /\ UNCHANGED <<active_forwards, stats, running, workers, ext_ports, stopped, next_id,
                   pm, disk, sec, now, ticks>>

\* The handler answers with the list or with the error, and is at rest again.
ListReturn(t) ==
    /\ req[t].pc \in {"list_done", "list_error"}
    /\ req' = [req EXCEPT ![t] = IdleReq]
    /\ UNCHANGED <<active_forwards, stats, running, workers, ext_ports, stopped, next_id,
                   pm, disk, sec, now, ticks>>

InitList == \E d \in RuleDisks : InitFrom(d, {})

NextList ==
    \/ \E cfg \in Configs : ApiAddCheck("T1", cfg)
    \/ StartForwardBegin("T1", TRUE, "ok")
    \/ StartForwardFinish("T1", "ok")
    \/ \E id \in Ids : ApiStopForward("T1", id, "ok")
    \/ ListBegin("T2")
    \/ ListNext("T2")
    \/ ListReturn("T2")

SpecList == InitList /\ [][NextList]_vars

\* C25: a listing that runs while rules are added and stopped never ends in
\* an error, and the list it returns holds each rule at most once.
C25_ListSafeUnderMutation ==
    \A t \in Threads :
       /\ req[t].pc # "list_error"
       /\ \A i, j \in 1..Len(req[t].out) :
             req[t].out[i].id = req[t].out[j].id => i = j

(***************************************************************************)
(* Stopping: restored rules whose workers bind and serve are stopped, and  *)
(* the registry is reloaded from the files, under a scheduler that lets    *)
(* every worker thread run.                                                *)
(***************************************************************************)
\* The interpreter this program runs on raises asyncio.CancelledError as a
\* BaseException (Python 3.8 and later): the 'except Exception' clauses of
\* tcp_forward and run_tcp let it pass, and the thread ends without touching
\* the rule. The variant below is the coroutine as it would behave if the
\* cancellation were caught by tcp_forward's except branch.
TcpExit_mut_catches_cancel(id) ==
    /\ id \in DOMAIN workers
    /\ workers[id].protocol = "TCP"
    /\ workers[id].st = "serving"
    /\ workers[id].lsock = "closed"
    /\ workers' = [workers EXCEPT ![id].st = "dead"]
    /\ active_forwards' =
           IF id \in DOMAIN active_forwards
           THEN [active_forwards EXCEPT ![id].status = "error", ![id].error = "cancelled"]
           ELSE active_forwards
    /\ UNCHANGED <<stats, running, ext_ports, req, stopped, next_id,
                   pm, disk, sec, now, ticks>>

\* tcp_forward leaving serve_forever: Server.close() has closed the listener
\* and cancelled the future serve_forever waits on; the coroutine and the
\* thread of the rule end.
TcpExit(id) ==
    /\ id \in DOMAIN workers
    /\ workers[id].protocol = "TCP"
    /\ workers[id].st = "serving"
    /\ workers[id].lsock = "closed"
    /\ workers' = [workers EXCEPT ![id].st = "dead"]
    /\ UNCHANGED <<active_forwards, stats, running, ext_ports, req, stopped, next_id,
                   pm, disk, sec, now, ticks>>

\* udp_server's loop body raises something other than socket.timeout
\* (recvfrom or sendto fails): the except branch logs and breaks, the finally
\* clause closes the sockets, and the thread ends.
UdpFault(id) ==
    /\ Serving(id, "UDP")
    /\ workers' = [workers EXCEPT ![id].st = "dead", ![id].lsock = "closed"]
    /\ UNCHANGED <<active_forwards, stats, running, ext_ports, req, stopped, next_id,
                   pm, disk, sec, now, ticks>>

InitStop == \E d \in StartupDisks : InitFrom(d, {})

NextStop ==
    \/ \E id \in Ids : TcpBind(id)
    \/ \E id \in Ids : UdpBind(id, TRUE)
    \/ \E id \in Ids : ApiStopForward("T1", id, "ok")
    \/ ApiRestoreData("T2")
    \/ \E id \in Ids : UdpExit(id)
    \/ \E id \in Ids : TcpExit(id)
    \/ \E id \in Ids : UdpFault(id)
    \/ \E id \in Ids : Finalize(id)

SpecStop ==
    /\ InitStop
    /\ [][NextStop]_vars
    /\ \A id \in Ids :
          /\ WF_vars(TcpBind(id))
          /\ WF_vars(UdpBind(id, TRUE))
          /\ WF_vars(UdpExit(id))
          /\ WF_vars(TcpExit(id))

\* C26: after stop_forward(id) has returned True the worker thread of that
\* rule eventually ends.
C26_StoppedWorkerTerminates ==
    \A id \in Ids :
       (id \in stopped) ~> (id \in DOMAIN workers => workers[id].st = "dead")

\* C27: active_connections is never negative, and whenever no worker is in
\* the middle of a counter update it equals the number of relayed TCP
\* connections that are open; a connection whose outbound dial failed
\* leaves it as it was.
C27_ActiveConnectionsCount ==
    /\ stats.active_connections >= 0
    /\ (\A id \in DOMAIN workers : workers[id].pc \in {"idle", "copy"})
          => stats.active_connections =
                Cardinality({id \in DOMAIN workers : workers[id].pc = "copy"})

\* The traffic of two rules when every worker thread is scheduled: a thread
\* that can take its next step does take it. When a peer closes its side is
\* up to the peer.
SpecRelay ==
    /\ InitTraffic
    /\ [][NextTraffic]_vars
    /\ \A id \in Ids :
          /\ WF_vars(StoreTotal(id))
          /\ WF_vars(LoadActive(id))
          /\ WF_vars(StoreActive(id))
          /\ WF_vars(StoreBytes(id))
          /\ WF_vars(CopyEnd(id))
          /\ WF_vars(StoreClosed(id))

\* C28: once one copy direction of a relayed connection has ended, the
\* handler of the connection eventually finishes (and has decremented
\* active_connections), whether or not the other peer ever closes its side.
C28_OneDirectionEndsConnection ==
    \A id \in Ids :
       (id \in DOMAIN workers /\ workers[id].ended # {}) ~> (workers[id].pc = "idle")

StatusSteps ==
    {<<"starting", "running">>, <<"starting", "error">>, <<"running", "error">>} \cup
    {<<st, "stopped">> : st \in {"starting", "running", "error"}}

\* C29: the status of a rule that stays in the registry changes only from
\* starting to running or error, from running to error, or to stopped: a
\* rule in status error does not become running, and a running rule does
\* not become starting.
C29_StatusStepsForward ==
    [][\A id \in DOMAIN active_forwards \cap DOMAIN active_forwards' :
          \/ active_forwards'[id].status = active_forwards[id].status
          \/ <<active_forwards[id].status, active_forwards'[id].status>> \in StatusSteps]_vars

\* C30: when the forward loop of a rule that is in the registry ends in an
\* exception (the bind fails, or receiving or sending a datagram fails), the
\* rule has status error and a message afterwards and its worker has ended;
\* the other rules and their workers are as they were.
C30_WorkerFaultMarksError ==
    [][\A id \in DOMAIN active_forwards :
          (/\ TcpBind(id) \/ UdpBind(id, FALSE) \/ UdpFault(id)
           /\ workers'[id].st = "dead")
          => /\ active_forwards'[id].status = "error"
             /\ active_forwards'[id].error # NoError
             /\ \A o \in DOMAIN active_forwards \ {id} :
                   active_forwards'[o] = active_forwards[o]
             /\ \A o \in DOMAIN workers \ {id} : workers'[o] = workers[o]]_vars

(***************************************************************************)
(* The error message of a rule.                                            *)
(***************************************************************************)
\* C31: in every reachable state a rule of the registry carries an error
\* message only if its status is error; a rule that is starting or running
\* has none.
C31_ErrorMessageOnlyInError ==
    \A id \in DOMAIN active_forwards :
       active_forwards[id].error # NoError => active_forwards[id].status = "error"

(***************************************************************************)
(* stop_forward step by step: the listener is closed first, the entry is   *)
(* removed afterwards, and the worker of the rule runs in between.         *)
(***************************************************************************)
\* stop_forward up to the closing of the listener: the membership test, then
\* forward_info['server'].close() and forward_info['socket'].close() for the
\* handles the entry holds. An unknown id returns False at once.
StopForwardClose(t, id) ==
    /\ req[t].pc = "idle"
    /\ IF id \notin DOMAIN active_forwards
       THEN UNCHANGED <<req, workers>>
       ELSE LET fi == active_forwards[id]
                closes == fi.server # "absent" \/ fi.socket # "absent"
            IN /\ workers' = IF closes /\ id \in DOMAIN workers /\ workers[id].lsock = "open"
                             THEN [workers EXCEPT ![id].lsock = "closed"]
                             ELSE workers
               /\ req' = [req EXCEPT ![t] = [IdleReq EXCEPT !.pc = "stopping", !.id = id]]
    /\ UNCHANGED <<active_forwards, stats, running, ext_ports, stopped, next_id,
                   pm, disk, sec, now, ticks>>

\* stop_forward from forward_info['status'] = 'stopped' on: the entry is
\* deleted and the data saved. When another thread has deleted the entry in
\* the meantime the del raises KeyError and stop_forward returns False.
StopForwardRemove(t, io) ==
    /\ req[t].pc = "stopping"
    /\ LET id == req[t].id
       IN IF id \notin DOMAIN active_forwards
          THEN UNCHANGED <<active_forwards, pm, disk, stopped>>
          ELSE LET af1 == Del(active_forwards, id)
                   sv == save_data(pm, disk, MemForwards(af1, workers), stats, now, io)
               IN /\ active_forwards' = af1
                  /\ pm' = sv.pm
                  /\ disk' = sv.disk
                  /\ stopped' = stopped \cup {id}
    /\ req' = [req EXCEPT ![t] = IdleReq]
    /\ UNCHANGED <<stats, running, workers, ext_ports, next_id, sec, now, ticks>>

NextStopRace ==
    \/ \E id \in Ids : TcpBind(id)
    \/ \E id \in Ids : UdpBind(id, TRUE)
    \/ \E t \in Threads, id \in Ids : StopForwardClose(t, id)
    \/ \E t \in Threads : StopForwardRemove(t, "ok")
    \/ \E id \in Ids : UdpExit(id)
    \/ \E id \in Ids : TcpExit(id)
    \/ \E id \in Ids : Finalize(id)

SpecStopRace == InitStop /\ [][NextStopRace]_vars

\* The listener of a serving worker is closed: only stop_forward does that.
ClosedByStop(id) ==
    /\ id \in DOMAIN workers
    /\ workers[id].st = "serving"
    /\ workers[id].lsock = "closed"

\* A step of stop_forward(id) itself, or a step the worker of id takes once
\* stop_forward has closed its listener.
CausedByStop(id) ==
    \/ \E t \in Threads : StopForwardClose(t, id)
    \/ \E t \in Threads : req[t].pc = "stopping" /\ req[t].id = id /\ StopForwardRemove(t, "ok")
    \/ ClosedByStop(id) /\ workers'[id] # workers[id]

\* No entry of the registry is put into status error or given an error
\* message by the step.
NoErrorRecorded ==
    \A x \in DOMAIN active_forwards' :
       LET fi == active_forwards'[x]
       IN (fi.status = "error" \/ fi.error # NoError) =>
             /\ x \in DOMAIN active_forwards
             /\ active_forwards[x].status = fi.status
             /\ active_forwards[x].error = fi.error

FailedDialStep(id) ==
    \/ TcpDial(id, FALSE)
    \/ /\ id \in DOMAIN workers
       /\ workers[id].pc = "store_closed"
       /\ StoreClosed(id)

\* C33: when the outbound dial for an inbound TCP connection fails, the
\* handler ends with the inbound connection closed, total_connections is
\* not incremented, the registry (the rule's status and error included) is
\* unchanged, and the worker keeps its listener open and goes on serving.
C33_FailedDialLeavesRuleHealthy ==
    [][\A id \in Ids :
          FailedDialStep(id) =>
             /\ stats'.total_connections = stats.total_connections
             /\ active_forwards' = active_forwards
             /\ Serving(id, "TCP")'
             /\ workers'[id].dials = workers[id].dials
             /\ (workers[id].pc = "store_closed" => workers'[id].pc = "idle")]_vars

\* A running rule whose first connection failed to dial out has accepted a
\* second connection and is relaying it; only that one was counted.
C33_Witness ==
    \E id \in DOMAIN workers :
       /\ workers[id].conns = 2
       /\ workers[id].dials = 1
       /\ workers[id].pc = "copy"
       /\ stats.total_connections = 1
       /\ id \in DOMAIN active_forwards
       /\ active_forwards[id].status = "running"
       /\ active_forwards[id].error = NoError

(***************************************************************************)
(* Stopping a TCP rule that is relaying a connection. The handlers of a    *)
(* rule's connections are tasks of the event loop its thread runs with     *)
(* run_until_complete(tcp_forward(...)): they take steps only while that   *)
(* call has not returned.                                                  *)
(***************************************************************************)
DrainDisk ==
    [EmptyDisk EXCEPT !.forwards_file =
        WrittenFile(Put(<<>>, 1, PersistedRule(1, "tcp", 1)), 0)]

\* The event loop of the rule's thread is running.
LoopRunning(id) == id \in DOMAIN workers /\ workers[id].st = "serving"

InitDrain == InitFrom(DrainDisk, {})

NextDrain ==
    \/ \E id \in Ids : TcpBind(id)
    \/ \E id \in Ids : TcpDial(id, TRUE)
    \/ \E id \in Ids : LoopRunning(id) /\ StoreTotal(id)
    \/ \E id \in Ids : LoopRunning(id) /\ LoadActive(id)
    \/ \E id \in Ids : LoopRunning(id) /\ StoreActive(id)
    \/ \E id \in Ids, n \in DatagramLens : LoopRunning(id) /\ CopyChunk(id, n)
    \/ \E id \in Ids : LoopRunning(id) /\ StoreBytes(id)
    \/ \E id \in Ids, dir \in Directions : LoopRunning(id) /\ CopyDataEnd(id, dir)
    \/ \E id \in Ids : LoopRunning(id) /\ CopyEnd(id)
    \/ \E id \in Ids : LoopRunning(id) /\ StoreClosed(id)
    \/ \E id \in Ids : ApiStopForward("T1", id, "ok")
    \/ \E id \in Ids : TcpExit(id)

\* Every task of a running event loop gets its turn, and both peers of a
\* relayed connection close their side in the end. When the loop notices
\* that its server was closed from the other thread is left open.
SpecDrain ==
    /\ InitDrain
    /\ [][NextDrain]_vars
    /\ \A id \in Ids :
          /\ WF_vars(LoopRunning(id) /\ StoreTotal(id))
          /\ WF_vars(LoopRunning(id) /\ LoadActive(id))
          /\ WF_vars(LoopRunning(id) /\ StoreActive(id))
          /\ WF_vars(LoopRunning(id) /\ StoreBytes(id))
          /\ \A dir \in Directions : WF_vars(LoopRunning(id) /\ CopyDataEnd(id, dir))
          /\ WF_vars(LoopRunning(id) /\ CopyEnd(id))
          /\ WF_vars(LoopRunning(id) /\ StoreClosed(id))

\* C34: a connection that a TCP rule is relaying when stop_forward returns
\* goes on until it ends by itself, and its handler then decrements
\* active_connections and finishes.
C34_StoppedRuleDrainsConnections ==
    \A id \in Ids :
       (id \in stopped /\ id \in DOMAIN workers /\ workers[id].pc # "idle")
          ~> (id \in DOMAIN workers /\ workers[id].pc = "idle")

(***************************************************************************)
(* The status stopped.                                                     *)
(***************************************************************************)
\* C35: in every state reached once the startup restore has finished, no
\* rule of the registry has status stopped, whatever operation was run, the
\* reload of the registry from the files included.
C35_NoStoppedRuleInRegistry ==
    \A id \in DOMAIN active_forwards : active_forwards[id].status # "stopped"

(***************************************************************************)
(* The cumulative counters.                                                *)
(***************************************************************************)
\* C36: no step of the running process decreases total_connections or
\* bytes_transferred: not a forward loop, not the start or stop of a rule,
\* not a periodic or manual save, not the reload of the counters from the
\* files.
C36_CountersNeverDecrease ==
    [][/\ stats'.total_connections >= stats.total_connections
       /\ stats'.bytes_transferred >= stats.bytes_transferred]_vars

(***************************************************************************)
(* Backup cleanup on a backup directory that holds up to MaxBackupFiles    *)
(* backups of each kind, called with every max_backups up to MaxKeep.      *)
(***************************************************************************)
MaxBackupFiles == 4  \* backups of one kind in the directory
MaxKeep == 4         \* largest max_backups passed to cleanup_old_backups

\* Backups written at different seconds: the name carries the second of the
\* rotation, the modification time is the one of the rotated file.
BackupUniverse ==
    {[kind |-> k, ts |-> t, mtime |-> t - 1] : k \in BackupKinds, t \in 1..MaxBackupFiles}

InitCleanup ==
    \E B \in SUBSET BackupUniverse :
       InitAs([Constructed(EmptyDisk, {}, 0, {}) EXCEPT !.disk.backups = B], {})

\* persistence_manager.cleanup_old_backups(max_backups).
CleanupBackups(max_backups) ==
    /\ \E kept \in cleanup_old_backups(disk.backups, max_backups) :
          disk' = [disk EXCEPT !.backups = kept]
    /\ UNCHANGED <<active_forwards, stats, running, workers, ext_ports, req, stopped,
                   next_id, pm, sec, now, ticks>>

NextCleanup == \E max_backups \in 1..MaxKeep : CleanupBackups(max_backups)

SpecCleanup == InitCleanup /\ [][NextCleanup]_vars

\* after holds, of every kind, exactly the n most recently modified backups
\* of before, or all of them when there are fewer.
KeepsNewest(before, after, n) ==
    \A k \in BackupKinds :
       LET had == {b \in before : b.kind = k}
           kept == {b \in after : b.kind = k}
       IN /\ kept \subseteq had
          /\ Cardinality(kept) = IF Cardinality(had) < n THEN Cardinality(had) ELSE n
          /\ \A x \in kept, y \in had \ kept : x.mtime >= y.mtime

\* C37: for every max_backups, cleanup_old_backups(max_backups) leaves of
\* each kind exactly the max_backups most recently modified backups (all of
\* them when fewer exist) and deletes the others: the number kept is the
\* argument.
C37_CleanupKeepsArgumentMany ==
    [][\A n \in 1..MaxKeep :
          CleanupBackups(n) => KeepsNewest(disk.backups, disk'.backups, n)]_vars

(***************************************************************************)
(* Logins, failed and successful, from two addresses, with honeypot probes *)
(* and a clock.                                                            *)
(***************************************************************************)
NextClear ==
    \/ \E ip \in AbuseIPs, password_ok \in BOOLEAN : LoginRequest(ip, password_ok)
    \/ \E ip \in AbuseIPs, path \in Paths : ProbeRequest(ip, path)
    \/ AbuseTick(BlockTime)

SpecClear == InitAbuse /\ [][NextClear]_vars

\* C38: clear_failed_attempts(ip) removes the recorded failures of ip and
\* nothing else: blocked_ips, scanner_detection, honeypot_hits and the
\* failures of every other IP are as before, so a block of ip stays in force
\* and the next record_failed_attempt(ip) starts from one failure.
C38_ClearRemovesOnlyFailures ==
    \A ip \in AbuseIPs :
       LET c == clear_failed_attempts(sec, ip)
           r == record_failed_attempt(c, ip, now)
       IN /\ ip \notin DOMAIN c.failed_attempts
          /\ DOMAIN c.failed_attempts = DOMAIN sec.failed_attempts \ {ip}
          /\ \A o \in DOMAIN c.failed_attempts :
                c.failed_attempts[o] = sec.failed_attempts[o]
          /\ c.blocked_ips = sec.blocked_ips
          /\ c.scanner_detection = sec.scanner_detection
          /\ c.honeypot_hits = sec.honeypot_hits
          /\ is_ip_blocked(c, ip, now).blocked = is_ip_blocked(sec, ip, now).blocked
          /\ r.failed_attempts[ip] = <<now>>
          /\ r.blocked_ips = sec.blocked_ips

\* An IP with recorded failures is blocked, and the other IP has failures
\* of its own.
C38_Witness ==
    \E ip, o \in AbuseIPs :
       /\ ip # o
       /\ Len(GetList(sec.failed_attempts, ip)) >= 1
       /\ ip \in DOMAIN sec.blocked_ips
       /\ sec.blocked_ips[ip] > now
       /\ Len(GetList(sec.failed_attempts, o)) >= 1

(***************************************************************************)
(* The change-status query.                                                *)
(***************************************************************************)
\* C39: api_check_changes leaves the persistence manager as it was: the
\* three stored hashes are the same after the query as before, so a save
\* that follows still writes what differs from the files.
C39_ChangeQueryKeepsHashes ==
    [][ApiCheckChanges("T1") =>
          /\ pm'.last_forwards_hash = pm.last_forwards_hash
          /\ pm'.last_stats_hash = pm.last_stats_hash
          /\ pm'.last_security_hash = pm.last_security_hash]_vars

(***************************************************************************)
(* Concurrent requests from one address. app.run(threaded=True) serves     *)
(* each request in a thread of its own; security_check first asks          *)
(* is_ip_blocked and only then records what the request did, and nothing   *)
(* keeps a second request of the same address from passing the first test  *)
(* in between.                                                             *)
(***************************************************************************)
GuardPaths == Paths \cup ScanPaths \cup {AdminPath}

\* security_check up to the answer of is_ip_blocked: a blocked address gets
\* 403, any other request goes on.
GuardGate(t, ip, path) ==
    /\ req[t].pc = "idle"
    /\ LET b == is_ip_blocked(sec, ip, now)
       IN /\ sec' = b.sec
          /\ req' = IF b.blocked THEN req
                    ELSE [req EXCEPT ![t] = [IdleReq EXCEPT !.pc = "passed",
                                                             !.ip = ip, !.path = path]]
    /\ UNCHANGED <<active_forwards, stats, running, workers, ext_ports, stopped,
                   next_id, pm, disk, now, ticks>>

\* The rest of the request: record_honeypot_hit for a honeypot path,
\* record_scanner_behavior for a path that is no route, and for the admin
\* path login with a wrong password, which calls record_failed_attempt.
GuardRecord(t) ==
    /\ req[t].pc = "passed"
    /\ LET ip == req[t].ip
           path == req[t].path
       IN /\ Len(GetList(sec.honeypot_hits, ip)) <= MaxHits
          /\ Len(GetList(sec.scanner_detection, ip)) <= ScannerThreshold
          /\ Len(GetList(sec.failed_attempts, ip)) <= MaxAttempts
          /\ sec' = IF path \in Paths THEN record_honeypot_hit(sec, ip, path, now)
                    ELSE IF path # AdminPath
                    THEN record_scanner_behavior(sec, ip, path, now).sec
                    ELSE record_failed_attempt(sec, ip, now)
    /\ req' = [req EXCEPT ![t] = IdleReq]
    /\ UNCHANGED <<active_forwards, stats, running, workers, ext_ports, stopped,
                   next_id, pm, disk, now, ticks>>

NextGuardRace ==
    \/ \E t \in Threads, ip \in IPs, path \in GuardPaths : GuardGate(t, ip, path)
    \/ \E t \in Threads : GuardRecord(t)
    \/ AbuseTick(BlockTime)

SpecGuardRace == InitAbuse /\ [][NextGuardRace]_vars

\* C40: no step of the abuse guard moves the expiry of an address that is
\* blocked to an earlier time, whatever the order and the interleaving of
\* the requests of that address.
C40_BlockNeverShortened ==
    [][\A ip \in DOMAIN sec.blocked_ips :
          sec.blocked_ips[ip] > now =>
             /\ ip \in DOMAIN sec'.blocked_ips
             /\ sec'.blocked_ips[ip] >= sec.blocked_ips[ip]]_vars

====
